---- MODULE Spec2Model ----
(***************************************************************************)
(* KeyValueStore (src/os/KeyValueStore.cc): an object store on top of an   *)
(* ordered key/value database.                                             *)
(*                                                                         *)
(*  - the strip engine and the BufferTransaction (SpecStore): one thread   *)
(*    applies lists of transaction ops to a BufferTransaction and commits  *)
(*    them, the committed key/value state is db;                           *)
(*  - the sequenced op pipeline (Spec, FairSpec): callers queue ops on     *)
(*    sequencers, worker threads apply them.                               *)
(***************************************************************************)
EXTENDS Integers, Sequences, FiniteSets, TLC

(***************************************************************************)
(* Bounds of the model.                                                    *)
(***************************************************************************)
\* stripe width used by every object of the model (default_strip_size)
StripSize == 2
\* largest offset of a WRITE / ZERO and largest size of a TRUNCATE
MaxOff == 3
\* largest length of a WRITE / ZERO
MaxLen == 3
\* data bytes are 1..MaxByte, 0 is the zero byte
MaxByte == 1
\* ops decoded into one BufferTransaction
MaxOps == 2
\* queue_transactions calls of the store model
MaxStoreOps == 2

Oids == {"a"}

\* a missing object, an empty header blob
NoObj == [none |-> TRUE]
NoData == [nodata |-> TRUE]
OBJECT_STRIP_PREFIX == "_STRIP_"
OBJECT_XATTR == "__OBJATTR__"
OBJECT_OMAP == "__OBJOMAP__"
OBJECT_OMAP_HEADER == "__OBJOMAP_HEADER__"
OBJECT_OMAP_HEADER_KEY == "__OBJOMAP_HEADER__KEY_"
COLLECTION_ATTR == "__COLL_ATTR__"

ENOENT == 2
EINVAL == 22
EEXIST == 17
ENOSPC == 28
ENOTEMPTY == 39
ENODATA == 61

(***************************************************************************)
(* Small helpers on byte sequences (bufferlist).                           *)
(***************************************************************************)
Min(a, b) == IF a < b THEN a ELSE b
Max(a, b) == IF a > b THEN a ELSE b

\* bufferlist::append_zero(n)
Zeros(n) == [i \in 1..n |-> 0]

\* a buffer of n bytes all equal to b
Fill(b, n) == [i \in 1..n |-> b]

\* bufferlist::copy(off, len, dest) can be done: off + len <= length()
CanCopy(bl, off, len) == off + len <= Len(bl)

\* the bytes bufferlist::copy(off, len, dest) appends to dest
Copy(bl, off, len) == SubSeq(bl, off + 1, off + len)

\* vector<char>::resize(n): truncates, or pads with 0
Resize(bits, n) == [i \in 1..n |-> IF i <= Len(bits) THEN bits[i] ELSE 0]

\* bits[no] for a stripe number inside the vector (stripe 0 is element 1)
InBits(bits, no) == no + 1 <= Len(bits)
Bit(bits, no) == bits[no + 1]
SetBit(bits, no, v) == [bits EXCEPT ![no + 1] = v]

(***************************************************************************)
(* SequencerPosition: (seq, trans, op), ordered lexicographically.         *)
(***************************************************************************)
ZeroSpos == [seq |-> 0, trans |-> 0, op |-> 0]

SposGreater(x, y) ==
  \/ x.seq > y.seq
  \/ x.seq = y.seq /\ x.trans > y.trans
  \/ x.seq = y.seq /\ x.trans = y.trans /\ x.op > y.op

\* StripObjectMap::check_spos: TRUE means "skip the op"
check_spos(header, spos) == ~SposGreater(spos, header.spos)

(***************************************************************************)
(* StripObjectMap::file_to_extents.  An extent is [no, offset, len].       *)
(***************************************************************************)
StripExtent(no, offset, len) == [no |-> no, offset |-> offset, len |-> len]

\* uint64_t and size_t, scaled down: the values are 0 .. 2^UintBits - 1 and
\* the arithmetic of file_to_extents wraps
UintBits == 4
Uint(x) == x % (2 ^ UintBits)

\* the loop over the whole stripes and the partial end: nfull whole stripes
\* from stripe number start on, whose first byte is strip_offset
file_to_extents_full(offset, len, strip_size, start, strip_offset, nfull) ==
  [i \in 1..nfull |-> StripExtent(start + i - 1, 0, strip_size)]
  \o (IF Uint(offset + len) > Uint(strip_offset + nfull * strip_size)
      THEN <<StripExtent(start + nfull, 0,
                         Uint(offset + len)
                           - Uint(strip_offset + nfull * strip_size))>>
      ELSE <<>>)

\* the partial first extent, when offset is in the middle of stripe start
file_to_extents_first(offset, len, strip_size, start, strip_offset, end) ==
  IF offset > strip_offset
  THEN <<StripExtent(start, offset - strip_offset,
                     IF Uint(offset - strip_offset + len) <= strip_size
                     THEN len
                     ELSE strip_size - (offset - strip_offset))>>
       \o file_to_extents_full(offset, len, strip_size, start + 1,
                               Uint(strip_offset + strip_size),
                               IF end > start + 1 THEN end - (start + 1) ELSE 0)
  ELSE file_to_extents_full(offset, len, strip_size, start, strip_offset,
                            IF end > start THEN end - start ELSE 0)

file_to_extents(offset, len, strip_size) ==
  IF len = 0 THEN <<>>
  ELSE file_to_extents_first(offset, len, strip_size, offset \div strip_size,
                             (offset \div strip_size) * strip_size,
                             Uint(offset + len) \div strip_size)

(***************************************************************************)
(* The key/value backend behind GenericObjectMap.  A stored object is      *)
(* NoObj or [data, keys]: data is the header blob (NoData while empty),    *)
(* keys maps <<prefix, key>> to a value.                                   *)
(***************************************************************************)
EmptyMap == [k \in {} |-> 0]
EmptyObj == [data |-> NoData, keys |-> EmptyMap]

\* the collection of the objects of the model, and the meta-collection that
\* holds one object per collection (get_coll_for_coll())
Colls == {"c"}
COLLECTION == "__COLLECTION__"
get_coll_for_coll == COLLECTION
\* the blank ghobject_t() of a default-constructed StripObjectHeader, whose
\* backend handle is the null pointer
NullId == ""
\* every (cid, oid) the store can hold: the objects of collection "c" and,
\* in the meta-collection, the object of each collection
Ids == Oids \cup {"b"} \cup Colls \cup {NullId}
\* make_ghobject_for_coll(cid): the object of the meta-collection that
\* stands for the collection
make_ghobject_for_coll(cid) == cid
\* the collection of an id
CollOf(id) == IF id \in Colls THEN get_coll_for_coll ELSE "c"
is_coll_obj(cid) == cid = get_coll_for_coll

EmptyDb == [o \in Ids |-> NoObj]

\* strip_object_key(no): the key of stripe number no
strip_object_key(no) == no
StripKey(no) == <<OBJECT_STRIP_PREFIX, strip_object_key(no)>>

\* GenericObjectMap::lookup_header
lookup_header(kv, oid) == kv[oid]

\* GenericObjectMap::lookup_create_header(cid, oid, t): staged in t
lookup_create_header(t, oid) ==
  IF t[oid] = NoObj THEN [t EXCEPT ![oid] = EmptyObj] ELSE t

\* A call that goes through a null Header handle is undefined behaviour.
\* The slot of NullId in the staged transaction records that it happened;
\* the step that made the call chooses what the process does next.
UbMark == [ub |-> TRUE]
DerefNull(t) == [t EXCEPT ![NullId] = UbMark]
DerefedNull(t) == t[NullId] = UbMark

\* GenericObjectMap::set_keys(header, prefix, values, t): staged in t
set_keys(t, handle, values) ==
  IF handle = NullId THEN DerefNull(t)
  ELSE IF t[handle] = NoObj THEN t
  ELSE [t EXCEPT ![handle].keys = values @@ @]

\* GenericObjectMap::rm_keys(header, prefix, keys, t): staged in t
rm_keys(t, handle, keys) ==
  IF handle = NullId THEN DerefNull(t)
  ELSE IF t[handle] = NoObj THEN t
  ELSE [t EXCEPT ![handle].keys = [k \in (DOMAIN @) \ keys |-> @[k]]]

\* GenericObjectMap::get_keys(cid, oid, prefix, keys) on the committed
\* state: the keys of the prefix, or -ENOENT without a header
get_keys(kv, oid, prefix) ==
  IF kv[oid] = NoObj THEN [r |-> -ENOENT, keys |-> {}]
  ELSE [r |-> 0, keys |-> {k \in DOMAIN kv[oid].keys : k[1] = prefix}]

\* GenericObjectMap::clear(header, t): staged in t
clear(t, handle) ==
  IF handle = NullId THEN DerefNull(t) ELSE [t EXCEPT ![handle] = NoObj]

\* GenericObjectMap::clone(parent, cid, target, t, old_header, new_header):
\* the target becomes a duplicate of the parent, staged in t
clone(t, parent, target) ==
  IF parent = NullId THEN DerefNull(t) ELSE [t EXCEPT ![target] = t[parent]]

\* GenericObjectMap::rename(header, cid, target, t): the object moves to
\* the target, staged in t; the handle then stands for the target
rename(t, handle, target) ==
  IF handle = NullId THEN DerefNull(t)
  ELSE [t EXCEPT ![target] = t[handle], ![handle] = NoObj]

\* GenericObjectMap::set_header(cid, oid, header, t): staged in t
set_header(t, oid, data) ==
  IF t[oid] = NoObj THEN t ELSE [t EXCEPT ![oid].data = data]

\* GenericObjectMap::get_values(cid, oid, prefix, keys, out) on the
\* committed state: the keys that exist, or -ENOENT without a header
get_values(kv, oid, keys) ==
  IF kv[oid] = NoObj THEN [r |-> -ENOENT, out |-> EmptyMap]
  ELSE [r |-> 0,
        out |-> [k \in keys \cap DOMAIN kv[oid].keys |-> kv[oid].keys[k]]]

(***************************************************************************)
(* StripObjectHeader.  bits is the presence bitmap, buffers the values     *)
(* staged in the running BufferTransaction, header the backend handle.     *)
(***************************************************************************)
StripObjectHeader(oid) ==
  [strip_size |-> StripSize, max_size |-> 0, bits |-> <<>>,
   spos |-> ZeroSpos, deleted |-> FALSE, buffers |-> EmptyMap,
   oid |-> oid, header |-> oid]

\* ::encode(strip_header, data): the persistent fields
encode(h) ==
  [strip_size |-> h.strip_size, max_size |-> h.max_size, bits |-> h.bits,
   spos |-> h.spos]

\* StripObjectMap::lookup_strip_header
\* ::decode(strip_header, bl) into the header of oid; a strip_size of 0 is
\* replaced by default_strip_size
decode(oid, d) ==
  [StripObjectHeader(oid) EXCEPT
     !.strip_size = IF d.strip_size = 0 THEN StripSize ELSE d.strip_size,
     !.max_size = d.max_size, !.bits = d.bits, !.spos = d.spos]

lookup_strip_header_found(oid, header) ==
  IF header = NoObj
  THEN [r |-> -ENOENT, h |-> StripObjectHeader(oid)]
  ELSE IF header.data = NoData THEN [r |-> 0, h |-> StripObjectHeader(oid)]
  ELSE [r |-> 0, h |-> decode(oid, header.data)]

lookup_strip_header(kv, oid) ==
  lookup_strip_header_found(oid, lookup_header(kv, oid))

\* StripObjectMap::save_strip_header
\* strip_header.header->data is written first: a null handle is
\* dereferenced
save_strip_header(t, h) ==
  IF h.header = NullId THEN DerefNull(t) ELSE set_header(t, h.oid, encode(h))

\* StripObjectMap::clone_wrap: [t, origin, target].  origin_header is the
\* default-constructed header of the caller, of which only spos is set
clone_wrap(t, old_header, oid, spos) ==
  [t |-> clone(t, old_header.header, oid),
   origin |-> [StripObjectHeader(NullId) EXCEPT !.spos = spos],
   target |-> [old_header EXCEPT
                 !.header = IF old_header.header = NullId THEN NullId ELSE oid,
                 !.oid = oid, !.spos = spos]]

(***************************************************************************)
(* BufferTransaction: [strip_headers, t, spos].  strip_headers maps the    *)
(* cached oids to their headers, t is the backend transaction, kept as the *)
(* key/value state its staged mutations lead to.                           *)
(***************************************************************************)
Res(r, bt) == [r |-> r, bt |-> bt, abort |-> FALSE]
Abort(bt) == [r |-> 0, bt |-> bt, abort |-> TRUE]

Cached(bt, oid) == oid \in DOMAIN bt.strip_headers
PutHeader(bt, oid, h) ==
  [bt EXCEPT !.strip_headers = (oid :> h) @@ @]

\* KeyValueStore::_check_coll on the committed state
_check_coll(kv, cid) ==
  IF is_coll_obj(cid) THEN 0
  ELSE IF lookup_strip_header(kv, make_ghobject_for_coll(cid)).r < 0
  THEN -ENOENT
  ELSE 0

\* check_coll that asks the committed state only
check_coll_committed(kv, bt, cid) == _check_coll(kv, cid)

\* BufferTransaction::check_coll: the collection is committed, or cached in
\* this BufferTransaction and not deleted
check_coll(kv, bt, cid) ==
  IF _check_coll(kv, cid) = 0 THEN 0
  ELSE IF /\ Cached(bt, make_ghobject_for_coll(cid))
          /\ ~bt.strip_headers[make_ghobject_for_coll(cid)].deleted
  THEN 0
  ELSE -ENOENT

\* BufferTransaction::lookup_cached_header
lookup_cached_header_miss(bt, oid, create_if_missing, lk) ==
  IF lk.r < 0 /\ create_if_missing
  THEN Res(0, PutHeader([bt EXCEPT !.t = lookup_create_header(@, oid)],
                        oid, StripObjectHeader(oid)))
  ELSE IF lk.r < 0 THEN Res(lk.r, bt)
  ELSE Res(0, PutHeader(bt, oid, lk.h))

lookup_cached_header(db, bt, oid, create_if_missing) ==
  IF check_coll(db, bt, CollOf(oid)) < 0 THEN Res(-ENOENT, bt)
  ELSE IF Cached(bt, oid)
  THEN IF bt.strip_headers[oid].deleted THEN Res(-ENOENT, bt) ELSE Res(0, bt)
  ELSE lookup_cached_header_miss(bt, oid, create_if_missing,
                                 lookup_strip_header(db, oid))

\* BufferTransaction::get_buffer_key: [r, bl, h, abort]; a cached value is
\* swapped out of buffers, which keeps an empty entry
get_buffer_key_backend(h, key, g) ==
  IF g.r < 0 THEN [r |-> g.r, bl |-> <<>>, h |-> h, abort |-> FALSE]
  ELSE IF Cardinality(DOMAIN g.out) # 1
  THEN [r |-> 0, bl |-> <<>>, h |-> h, abort |-> TRUE]
  ELSE [r |-> 0, bl |-> g.out[key], h |-> h, abort |-> FALSE]

get_buffer_key(db, h, key) ==
  IF key \in DOMAIN h.buffers
  THEN [r |-> 0, bl |-> h.buffers[key],
        h |-> [h EXCEPT !.buffers[key] = <<>>], abort |-> FALSE]
  ELSE get_buffer_key_backend(h, key, get_values(db, h.oid, {key}))

\* set_buffer_keys that stages the values but leaves them out of the buffers
set_buffer_keys_unbuffered(bt, h, values) ==
  IF check_spos(h, bt.spos) THEN [h |-> h, t |-> bt.t]
  ELSE [h |-> h, t |-> set_keys(bt.t, h.header, values)]

\* BufferTransaction::set_buffer_keys on header h: [h, t]
set_buffer_keys(bt, h, values) ==
  IF check_spos(h, bt.spos) THEN [h |-> h, t |-> bt.t]
  ELSE [h |-> [h EXCEPT !.buffers = values @@ @],
        t |-> set_keys(bt.t, h.header, values)]

\* BufferTransaction::remove_buffer_keys on header h: [h, t]
remove_buffer_keys(bt, h, keys) ==
  IF check_spos(h, bt.spos) THEN [h |-> h, t |-> bt.t]
  ELSE [h |-> [h EXCEPT !.buffers = [k \in keys |-> <<>>] @@ @],
        t |-> rm_keys(bt.t, h.header, keys)]

\* BufferTransaction::clear_buffer
\* clear_buffer without strip_header->deleted = true
clear_buffer_header_unmarked(bt, oid, h) ==
  IF check_spos(h, bt.spos) THEN Res(0, bt)
  ELSE Res(0, [bt EXCEPT !.t = clear(bt.t, h.header)])

\* BufferTransaction::clear_buffer_keys: the header with the buffered
\* values of the prefix blanked
clear_buffer_keys(prefix, h) ==
  [h EXCEPT !.buffers = [k \in DOMAIN @ |->
                           IF k[1] = prefix THEN <<>> ELSE @[k]]]

clear_buffer_header(bt, oid, h) ==
  IF check_spos(h, bt.spos) THEN Res(0, bt)
  ELSE Res(0, [PutHeader(bt, oid, [h EXCEPT !.deleted = TRUE])
                 EXCEPT !.t = clear(bt.t, h.header)])

clear_buffer(bt, oid) == clear_buffer_header(bt, oid, bt.strip_headers[oid])

\* BufferTransaction::clone_buffer: old is the cached header of the source
clone_buffer_wrapped(bt, old, oid, w) ==
  [bt EXCEPT
     !.t = w.t,
     !.strip_headers =
        (oid :> w.target) @@ (old.oid :> w.origin)
          @@ [k \in (DOMAIN @) \ {oid} |-> @[k]]]

clone_buffer_header(bt, old, oid) ==
  IF check_spos(old, bt.spos) THEN bt
  ELSE clone_buffer_wrapped(bt, old, oid, clone_wrap(bt.t, old, oid, bt.spos))

clone_buffer(bt, oldoid, oid) ==
  clone_buffer_header(bt, bt.strip_headers[oldoid], oid)

\* StripObjectMap::rename_wrap: the header after the rename
rename_wrap(header, oid, spos) ==
  [header EXCEPT !.header = IF header.header = NullId THEN NullId ELSE oid,
                 !.oid = oid, !.spos = spos]

\* BufferTransaction::rename_buffer.  rename_wrap has renamed *old_header
\* in place, so the erase goes by the new name of the header
rename_buffer_wrapped(bt, oldoid, oid, t, renamed) ==
  [bt EXCEPT
     !.t = t,
     !.strip_headers =
        (oid :> renamed)
          @@ [k \in (DOMAIN @) \ {renamed.oid} |->
                IF k = oldoid THEN renamed ELSE @[k]]]

rename_buffer_header(bt, oldoid, oid, old) ==
  IF check_spos(old, bt.spos) THEN bt
  ELSE rename_buffer_wrapped(bt, oldoid, oid,
                             rename(bt.t, old.header, oid),
                             rename_wrap(old, oid, bt.spos))

rename_buffer(bt, oldoid, oid) ==
  rename_buffer_header(bt, oldoid, oid, bt.strip_headers[oldoid])

\* the order of the keys of the std::map strip_headers, which is the order
\* submit_transaction walks it in: the blank key, then the objects of the
\* collection, then the object of the collection
StripHeaderOrder == <<NullId, "a", "b", "c">>
\* the first key of todo in that order
FirstKey(todo) ==
  StripHeaderOrder[CHOOSE i \in DOMAIN StripHeaderOrder :
                     /\ StripHeaderOrder[i] \in todo
                     /\ \A j \in 1 .. i - 1 : StripHeaderOrder[j] \notin todo]

\* the loop of BufferTransaction::submit_transaction over strip_headers
RECURSIVE SaveHeaders(_, _, _)
SaveHeader(bt, t, todo, oid) ==
  SaveHeaders(bt,
              IF check_spos(bt.strip_headers[oid], bt.spos)
                 \/ bt.strip_headers[oid].deleted
              THEN t ELSE save_strip_header(t, bt.strip_headers[oid]),
              todo \ {oid})

SaveHeaders(bt, t, todo) ==
  IF todo = {} THEN t
  ELSE SaveHeader(bt, t, todo, FirstKey(todo))

\* BufferTransaction::submit_transaction: the state the backend commits
submit_transaction(bt) == SaveHeaders(bt, bt.t, DOMAIN bt.strip_headers)


(***************************************************************************)
(* KeyValueStore::_write.                                                  *)
(***************************************************************************)
\* the loop of _write over the extents, from extent i on:
\* [h, values, bl_offset, r, abort]
RECURSIVE WriteExtents(_, _, _, _, _, _, _)
\* what the body of the loop makes of one extent: [h, value, r, abort]
WriteValue(h, value) == [h |-> h, value |-> value, r |-> 0, abort |-> FALSE]
WriteFail(h, r, abort) == [h |-> h, value |-> <<>>, r |-> r, abort |-> abort]

\* value.append_zero(strip_size - value.length()) when value is shorter
Pad(value, strip_size) ==
  IF Len(value) < strip_size THEN value \o Zeros(strip_size - Len(value))
  ELSE value

\* the stripe is present and partly overwritten: the rest of old is copied
\* behind the head of old and the new bytes (v1)
WriteMergeTail(h, old, v1) ==
  IF Len(v1) = h.strip_size THEN WriteValue(h, v1)
  ELSE IF ~CanCopy(old, Len(v1), h.strip_size - Len(v1))
  THEN WriteFail(h, 0, TRUE)
  ELSE WriteValue(h, v1 \o Copy(old, Len(v1), h.strip_size - Len(v1)))

\* the stripe is present and partly overwritten: g is what get_buffer_key
\* returned for it
WriteMerge(h, e, bl, bl_offset, g) ==
  IF g.abort THEN WriteFail(h, 0, TRUE)
  ELSE IF g.r < 0 THEN WriteFail(h, g.r, FALSE)
  ELSE IF ~CanCopy(g.bl, 0, e.offset) THEN WriteFail(h, 0, TRUE)
  ELSE WriteMergeTail(g.h, g.bl,
                      Copy(g.bl, 0, e.offset) \o Copy(bl, bl_offset, e.len))

\* the body of the loop of _write for the extent e
WriteStripe(db, h, e, bl, bl_offset) ==
  IF Bit(h.bits, e.no) = 1
  THEN IF e.offset = 0 /\ e.len = h.strip_size
       THEN WriteValue(h, Copy(bl, bl_offset, e.len))
       ELSE WriteMerge(h, e, bl, bl_offset,
                       get_buffer_key(db, h, StripKey(e.no)))
  ELSE WriteValue([h EXCEPT !.bits = SetBit(@, e.no, 1)],
                  Pad(Zeros(e.offset) \o Copy(bl, bl_offset, e.len),
                      h.strip_size))

\* the end of the body for extent i, w being the value built for it:
\* assert(value.length() == strip_size), values[key].swap(value)
WriteNext(db, extents, i, bl, bl_offset, values, w) ==
  IF w.abort \/ w.r < 0
  THEN [h |-> w.h, values |-> values, bl_offset |-> bl_offset, r |-> w.r,
        abort |-> w.abort]
  ELSE IF Len(w.value) # w.h.strip_size
  THEN [h |-> w.h, values |-> values, bl_offset |-> bl_offset, r |-> 0,
        abort |-> TRUE]
  ELSE WriteExtents(db, w.h, extents, i + 1, bl, bl_offset + extents[i].len,
                    (StripKey(extents[i].no) :> w.value) @@ values)

\* the loop of _write over the extents, from extent i on:
\* [h, values, bl_offset, r, abort]
WriteExtents(db, h, extents, i, bl, bl_offset, values) ==
  IF i > Len(extents)
  THEN [h |-> h, values |-> values, bl_offset |-> bl_offset, r |-> 0,
        abort |-> FALSE]
  ELSE WriteNext(db, extents, i, bl, bl_offset, values,
                 WriteStripe(db, h, extents[i], bl, bl_offset))

\* the end of _write: s is what set_buffer_keys returned
_write_staged(bt, oid, s) ==
  Res(0, PutHeader([bt EXCEPT !.t = s.t], oid, s.h))

\* _write after the loop, w being what the loop returned:
\* assert(bl_offset == len), set_buffer_keys
_write_extents(bt, oid, len, w) ==
  IF w.abort \/ (w.r = 0 /\ w.bl_offset # len)
  THEN Abort(PutHeader(bt, oid, w.h))
  ELSE IF w.r < 0 THEN Res(w.r, PutHeader(bt, oid, w.h))
  ELSE _write_staged(bt, oid, set_buffer_keys(bt, w.h, w.values))

\* _write from file_to_extents on, h being the header with max_size grown
_write_header(db, bt, oid, offset, len, bl, h) ==
  _write_extents(bt, oid, len,
                 WriteExtents(db, h, file_to_extents(offset, len, h.strip_size),
                              1, bl, 0, EmptyMap))

\* if (len + offset > header->max_size): max_size and bits grow
_write_grow(h, offset, len) ==
  IF len + offset > h.max_size
  THEN [h EXCEPT !.max_size = len + offset,
                 !.bits = Resize(@, (len + offset) \div h.strip_size + 1)]
  ELSE h

\* _write after lookup_cached_header, which returned lk
_write_found(db, oid, offset, len0, bl, lk) ==
  IF lk.r < 0 THEN Res(lk.r, lk.bt)
  ELSE _write_header(db, lk.bt, oid, offset, Min(len0, Len(bl)), bl,
                     _write_grow(lk.bt.strip_headers[oid], offset,
                                 Min(len0, Len(bl))))

_write(db, bt, oid, offset, len0, bl) ==
  _write_found(db, oid, offset, len0, bl,
               lookup_cached_header(db, bt, oid, TRUE))

\* KeyValueStore::_zero
_zero(db, bt, oid, offset, len) == _write(db, bt, oid, offset, len, Zeros(len))

\* KeyValueStore::_touch
_touch_found(lk) == IF lk.r < 0 THEN Res(-EINVAL, lk.bt) ELSE lk

_touch(db, bt, oid) == _touch_found(lookup_cached_header(db, bt, oid, TRUE))

\* KeyValueStore::_remove
_remove_found(oid, lk) ==
  IF lk.r < 0 THEN lk ELSE clear_buffer(lk.bt, oid)

_remove(db, bt, oid) ==
  _remove_found(oid, lookup_cached_header(db, bt, oid, FALSE))

(***************************************************************************)
(* KeyValueStore::_truncate.  The code plans the extents of a shrink over  *)
(* [size, size + max_size) and so visits stripe numbers past the end of    *)
(* bits; what such a read of bits yields is not defined: oob is the set of *)
(* those stripe numbers that read as set.  After a partial first extent    *)
(* the iterator is advanced before its stripe number is taken; with a      *)
(* single extent that reads past the extent list, and ubno is the stripe   *)
(* number read there.                                                      *)
(***************************************************************************)
\* the extents a shrinking _truncate(size) plans on header h:
\* file_to_extents(size, header->max_size, header->strip_size, extents)
_truncate_extents(h, size) == file_to_extents(size, h.max_size, h.strip_size)

\* the stripe numbers of extents[i..] whose bit reads as set
SetStripes(h, extents, i, oob) ==
  {extents[j].no : j \in {k \in i..Len(extents) :
      IF InBits(h.bits, extents[k].no) THEN Bit(h.bits, extents[k].no) = 1
      ELSE extents[k].no \in oob}}

\* the stripe numbers past the end of bits that a shrink to size visits
OobStripesOf(h, extents) ==
  {extents[j].no : j \in 1..Len(extents)} \ (0..(Len(h.bits) - 1))

OobStripes(h, size) ==
  IF h.max_size > size
  THEN OobStripesOf(h, _truncate_extents(h, size))
  ELSE {}

ClearBits(bits, nos) ==
  [i \in 1..Len(bits) |-> IF (i - 1) \in nos THEN 0 ELSE bits[i]]

\* the end of _truncate without bits.resize
_truncate_finish_keep_bits(bt, oid, size, h) ==
  Res(0, PutHeader(bt, oid, [h EXCEPT !.max_size = size]))

\* the end of _truncate: bits.resize(size / strip_size + 1), max_size = size
_truncate_finish(bt, oid, size, h) ==
  Res(0, PutHeader(bt, oid,
        [h EXCEPT !.bits = Resize(@, size \div h.strip_size + 1),
                  !.max_size = size]))

\* rm is what remove_buffer_keys returned
_truncate_removed(bt, oid, size, rm) ==
  _truncate_finish([bt EXCEPT !.t = rm.t], oid, size, rm.h)

\* the loop over the extents left has found the stripes nos set: their bits
\* are cleared and their keys removed
_truncate_remove(bt, oid, size, h, nos) ==
  _truncate_removed(bt, oid, size,
                    remove_buffer_keys(bt, [h EXCEPT !.bits = ClearBits(@, nos)],
                                       {StripKey(n) : n \in nos}))

\* _truncate from the loop over the extents on, which starts at extent i
_truncate_rest(bt, oid, size, h, extents, i, oob) ==
  _truncate_remove(bt, oid, size, h, SetStripes(h, extents, i, oob))

\* the value of the first stripe was staged: s is what set_buffer_keys
\* returned
_truncate_staged(bt, oid, size, extents, oob, s) ==
  _truncate_rest([bt EXCEPT !.t = s.t], oid, size, s.h, extents, 2, oob)

\* the first extent starts inside a stripe, g is what get_buffer_key
\* returned for it: the head of the stripe is kept, zeros behind it, and
\* after ++iter the value goes under strip_object_key(iter->no)
_truncate_partial(bt, oid, size, extents, oob, ubno, g) ==
  IF g.abort THEN Abort(bt)
  ELSE IF g.r < 0 THEN Res(g.r, bt)
  ELSE IF ~CanCopy(g.bl, 0, extents[1].offset) THEN Abort(bt)
  ELSE _truncate_staged(bt, oid, size, extents, oob,
         set_buffer_keys(bt, g.h,
           StripKey(IF Len(extents) >= 2 THEN extents[2].no ELSE ubno)
             :> (Copy(g.bl, 0, extents[1].offset)
                   \o Zeros(g.h.strip_size - extents[1].offset))))

\* header->max_size > size
_truncate_shrink(db, bt, oid, size, h, extents, oob, ubno) ==
  IF extents[1].offset # 0
  THEN _truncate_partial(bt, oid, size, extents, oob, ubno,
                         get_buffer_key(db, h, StripKey(extents[1].no)))
  ELSE _truncate_rest(bt, oid, size, h, extents, 1, oob)

\* _truncate on the header h it found
_truncate_header(db, bt, oid, size, h, oob, ubno) ==
  IF h.max_size = size THEN Res(0, bt)
  ELSE IF h.max_size > size
  THEN _truncate_shrink(db, bt, oid, size, h, _truncate_extents(h, size),
                        oob, ubno)
  ELSE _truncate_finish(bt, oid, size, h)

\* _truncate after lookup_cached_header, which returned lk
_truncate_found(db, oid, size, oob, ubno, lk) ==
  IF lk.r < 0 THEN lk
  ELSE _truncate_header(db, lk.bt, oid, size, lk.bt.strip_headers[oid],
                        oob, ubno)

_truncate(db, bt, oid, size, oob, ubno) ==
  _truncate_found(db, oid, size, oob, ubno,
                  lookup_cached_header(db, bt, oid, FALSE))


(***************************************************************************)
(* KeyValueStore::_generic_read: [r, bl, abort], r the number of bytes or  *)
(* a negative error.  usebt tells whether the header comes from a running  *)
(* BufferTransaction, whose buffers are then used.                         *)
(***************************************************************************)
\* the second loop of _generic_read, from extent i on: [bl, abort]
RECURSIVE ReadExtents(_, _, _, _, _, _)
ReadExtents(h, extents, i, readed, out, bl) ==
  IF i > Len(extents) THEN [bl |-> bl, abort |-> FALSE]
  ELSE
    LET e == extents[i]
        key == StripKey(e.no)
        val == IF key \in DOMAIN out THEN out[key] ELSE <<>>
    IN IF readed + h.strip_size > h.max_size
       THEN IF Bit(h.bits, e.no) = 1
            THEN IF CanCopy(val, 0, e.len)
                 THEN [bl |-> bl \o Copy(val, 0, e.len), abort |-> FALSE]
                 ELSE [bl |-> bl, abort |-> TRUE]
            ELSE [bl |-> bl \o Zeros(e.len), abort |-> FALSE]
       ELSE ReadExtents(h, extents, i + 1, readed + h.strip_size, out,
                        IF Bit(h.bits, e.no) = 1 THEN bl \o val
                        ELSE bl \o Zeros(h.strip_size))

ReadHeader(db, header, usebt, offset, len0) ==
  IF header.max_size < offset
  THEN [r |-> -EINVAL, bl |-> <<>>, abort |-> FALSE]
  ELSE
    LET len1 == IF len0 = 0 THEN header.max_size - offset ELSE len0
        len == IF offset + len1 > header.max_size
               THEN header.max_size - offset ELSE len1
        extents == file_to_extents(offset, len, header.strip_size)
        nos == {extents[j].no : j \in 1..Len(extents)}
        buffered == IF usebt
                    THEN {StripKey(n) : n \in nos} \cap DOMAIN header.buffers
                    ELSE {}
        keys == {StripKey(n) : n \in {m \in nos : Bit(header.bits, m) = 1}}
                  \ buffered
        g == get_values(db, header.oid, keys)
        out == [k \in buffered |-> header.buffers[k]] @@ g.out
        rd == ReadExtents(header, extents, 1, 0, out, <<>>)
    IN IF \E n \in nos : StripKey(n) \in buffered /\ Bit(header.bits, n) # 1
       THEN [r |-> 0, bl |-> <<>>, abort |-> TRUE]
       ELSE IF g.r < 0 THEN [r |-> g.r, bl |-> <<>>, abort |-> FALSE]
       ELSE IF Cardinality(DOMAIN out) # Cardinality(keys)
       THEN [r |-> -EINVAL, bl |-> <<>>, abort |-> FALSE]
       ELSE [r |-> Len(rd.bl), bl |-> rd.bl, abort |-> rd.abort]

\* KeyValueStore::read on the committed state
read(db, oid, offset, len) ==
  LET lk == lookup_strip_header(db, oid)
  IN IF _check_coll(db, CollOf(oid)) < 0
     THEN [r |-> -ENOENT, bl |-> <<>>, abort |-> FALSE]
     ELSE IF lk.r < 0 THEN [r |-> lk.r, bl |-> <<>>, abort |-> FALSE]
     ELSE ReadHeader(db, lk.h, FALSE, offset, len)

\* KeyValueStore::_generic_read with a BufferTransaction: [r, bl, abort, bt]
_generic_read_cached(db, oid, offset, len, lk, rd) ==
  [r |-> rd.r, bl |-> rd.bl, abort |-> rd.abort, bt |-> lk.bt]

_generic_read_found(db, oid, offset, len, lk) ==
  IF lk.r < 0 THEN [r |-> lk.r, bl |-> <<>>, abort |-> FALSE, bt |-> lk.bt]
  ELSE _generic_read_cached(
         db, oid, offset, len, lk,
         ReadHeader(db, lk.bt.strip_headers[oid], TRUE, offset, len))

_generic_read(db, bt, oid, offset, len) ==
  IF _check_coll(db, CollOf(oid)) < 0
  THEN [r |-> -ENOENT, bl |-> <<>>, abort |-> FALSE, bt |-> bt]
  ELSE _generic_read_found(db, oid, offset, len,
                           lookup_cached_header(db, bt, oid, FALSE))

\* KeyValueStore::_clone_range
\* after _generic_read, which returned g
_clone_range_read(db, newoid, len, dstoff, g) ==
  IF g.abort THEN Abort(g.bt)
  ELSE IF g.r < 0 THEN Res(g.r, g.bt)
  ELSE _write(db, g.bt, newoid, dstoff, len, g.bl)

_clone_range(db, bt, oldoid, newoid, srcoff, len, dstoff) ==
  _clone_range_read(db, newoid, len, dstoff,
                    _generic_read(db, bt, oldoid, srcoff, len))

(***************************************************************************)
(* KeyValueStore::fiemap: [r, m], m the map<uint64_t, uint64_t> that is    *)
(* encoded into bl.                                                        *)
(***************************************************************************)
\* the loop m[iter->offset] = iter->len, from extent i on
RECURSIVE FiemapExtents(_, _, _)
FiemapExtents(extents, i, m) ==
  IF i > Len(extents) THEN m
  ELSE FiemapExtents(extents, i + 1,
                     (extents[i].offset :> extents[i].len) @@ m)

\* fiemap after lookup_strip_header, which returned lk
fiemap_found(offset, len, lk) ==
  IF lk.r < 0 THEN [r |-> lk.r, m |-> EmptyMap]
  ELSE [r |-> 0,
        m |-> FiemapExtents(file_to_extents(offset, len, lk.h.strip_size),
                            1, EmptyMap)]

fiemap(kv, oid, offset, len) ==
  IF _check_coll(kv, CollOf(oid)) < 0 THEN [r |-> -ENOENT, m |-> EmptyMap]
  ELSE fiemap_found(offset, len, lookup_strip_header(kv, oid))

(***************************************************************************)
(* Attributes and omap.  aset maps names to values; under a prefix the     *)
(* name n is the key <<prefix, n>>.                                        *)
(***************************************************************************)
Prefixed(prefix, aset) ==
  [k \in {<<prefix, n>> : n \in DOMAIN aset} |-> aset[k[2]]]
Unprefixed(prefix, out) ==
  [n \in {k[2] : k \in DOMAIN out} |-> out[<<prefix, n>>]]

\* an op that stages values on the header it looked up: s is what
\* set_buffer_keys returned
SetStaged(bt, oid, s) == Res(0, PutHeader([bt EXCEPT !.t = s.t], oid, s.h))

\* _setattrs storing the attributes under the omap prefix
_setattrs_omap_prefix(oid, aset, lk) ==
  IF lk.r < 0 THEN lk
  ELSE SetStaged(lk.bt, oid,
                 set_buffer_keys(lk.bt, lk.bt.strip_headers[oid],
                                 Prefixed(OBJECT_OMAP, aset)))

\* KeyValueStore::_setattrs after lookup_cached_header, which returned lk
_setattrs_found(oid, aset, lk) ==
  IF lk.r < 0 THEN lk
  ELSE SetStaged(lk.bt, oid,
                 set_buffer_keys(lk.bt, lk.bt.strip_headers[oid],
                                 Prefixed(OBJECT_XATTR, aset)))

_setattrs(db, bt, oid, aset) ==
  _setattrs_found(oid, aset, lookup_cached_header(db, bt, oid, FALSE))

\* KeyValueStore::_omap_setkeys
_omap_setkeys_found(oid, aset, lk) ==
  IF lk.r < 0 THEN lk
  ELSE SetStaged(lk.bt, oid,
                 set_buffer_keys(lk.bt, lk.bt.strip_headers[oid],
                                 Prefixed(OBJECT_OMAP, aset)))

_omap_setkeys(db, bt, oid, aset) ==
  _omap_setkeys_found(oid, aset, lookup_cached_header(db, bt, oid, FALSE))

\* KeyValueStore::_omap_setheader
_omap_setheader_found(oid, bl, lk) ==
  IF lk.r < 0 THEN lk
  ELSE SetStaged(lk.bt, oid,
                 set_buffer_keys(lk.bt, lk.bt.strip_headers[oid],
                                 <<OBJECT_OMAP_HEADER, OBJECT_OMAP_HEADER_KEY>>
                                   :> bl))

_omap_setheader(db, bt, oid, bl) ==
  _omap_setheader_found(oid, bl, lookup_cached_header(db, bt, oid, FALSE))

\* KeyValueStore::_rmattrs: g is what backend->get_keys returned, s what
\* remove_buffer_keys returned
_rmattrs_removed(bt, oid, s) ==
  Res(0, PutHeader([bt EXCEPT !.t = s.t], oid,
                   clear_buffer_keys(OBJECT_XATTR, s.h)))

_rmattrs_keys(bt, oid, g) ==
  IF g.r < 0 /\ g.r # -ENOENT THEN Res(g.r, bt)
  ELSE _rmattrs_removed(bt, oid,
                        remove_buffer_keys(bt, bt.strip_headers[oid], g.keys))

_rmattrs_found(db, oid, lk) ==
  IF lk.r < 0 THEN lk
  ELSE _rmattrs_keys(lk.bt, oid, get_keys(db, oid, OBJECT_XATTR))

_rmattrs(db, bt, oid) ==
  _rmattrs_found(db, oid, lookup_cached_header(db, bt, oid, FALSE))

\* KeyValueStore::_omap_clear: s1 is what remove_buffer_keys returned for
\* the keys of OBJECT_OMAP, s2 for OBJECT_OMAP_HEADER_KEY
_omap_clear_header(bt, oid, s2) ==
  Res(0, PutHeader([bt EXCEPT !.t = s2.t], oid,
                   clear_buffer_keys(OBJECT_OMAP_HEADER, s2.h)))

_omap_clear_removed(bt, oid, s1) ==
  _omap_clear_header(
    bt, oid,
    remove_buffer_keys([bt EXCEPT !.t = s1.t], s1.h,
                       {<<OBJECT_OMAP_HEADER, OBJECT_OMAP_HEADER_KEY>>}))

_omap_clear_keys(bt, oid, g) ==
  IF g.r < 0 /\ g.r # -ENOENT THEN Res(g.r, bt)
  ELSE _omap_clear_removed(
         bt, oid, remove_buffer_keys(bt, bt.strip_headers[oid], g.keys))

_omap_clear_found(db, oid, lk) ==
  IF lk.r < 0 THEN lk
  ELSE _omap_clear_keys(lk.bt, oid, get_keys(db, oid, OBJECT_OMAP))

_omap_clear(db, bt, oid) ==
  _omap_clear_found(db, oid, lookup_cached_header(db, bt, oid, FALSE))

\* KeyValueStore::getattr on the committed state: [r, bl]
getattr_got(g) ==
  IF g.r < 0 /\ g.r # -ENOENT THEN [r |-> g.r, bl |-> <<>>]
  ELSE IF DOMAIN g.out = {} THEN [r |-> -ENODATA, bl |-> <<>>]
  ELSE [r |-> 0, bl |-> g.out[CHOOSE k \in DOMAIN g.out : TRUE]]

getattr(kv, oid, name) ==
  IF _check_coll(kv, CollOf(oid)) < 0 THEN [r |-> -ENOENT, bl |-> <<>>]
  ELSE getattr_got(get_values(kv, oid, {<<OBJECT_XATTR, name>>}))

\* KeyValueStore::omap_get_values on the committed state: [r, out]
omap_get_values_got(g) ==
  IF g.r < 0 /\ g.r # -ENOENT THEN [r |-> g.r, out |-> EmptyMap]
  ELSE [r |-> 0, out |-> Unprefixed(OBJECT_OMAP, g.out)]

omap_get_values(kv, oid, names) ==
  IF _check_coll(kv, CollOf(oid)) < 0 THEN [r |-> -ENOENT, out |-> EmptyMap]
  ELSE omap_get_values_got(
         get_values(kv, oid, {<<OBJECT_OMAP, n>> : n \in names}))

\* KeyValueStore::omap_get_header on the committed state: [r, bl, abort]
omap_get_header_got(g) ==
  IF g.r < 0 /\ g.r # -ENOENT
  THEN [r |-> g.r, bl |-> <<>>, abort |-> FALSE]
  ELSE IF DOMAIN g.out = {} THEN [r |-> 0, bl |-> <<>>, abort |-> FALSE]
  ELSE [r |-> 0, bl |-> g.out[CHOOSE k \in DOMAIN g.out : TRUE],
        abort |-> Cardinality(DOMAIN g.out) # 1]

omap_get_header(kv, oid) ==
  IF _check_coll(kv, CollOf(oid)) < 0
  THEN [r |-> -ENOENT, bl |-> <<>>, abort |-> FALSE]
  ELSE omap_get_header_got(
         get_values(kv, oid, {<<OBJECT_OMAP_HEADER, OBJECT_OMAP_HEADER_KEY>>}))

(***************************************************************************)
(* The transaction decoder, KeyValueStore::_do_transaction: one op.        *)
(* An op is [op, oid, off, len, bl].                                       *)
(***************************************************************************)
OP_TOUCH == "OP_TOUCH"
OP_WRITE == "OP_WRITE"
OP_ZERO == "OP_ZERO"
OP_TRUNCATE == "OP_TRUNCATE"
OP_REMOVE == "OP_REMOVE"
OP_SETATTR == "OP_SETATTR"
OP_CLONE == "OP_CLONE"
OP_CLONERANGE == "OP_CLONERANGE"
OP_CLONERANGE2 == "OP_CLONERANGE2"
OP_MKCOLL == "OP_MKCOLL"
OP_RMCOLL == "OP_RMCOLL"
OP_COLL_MOVE_RENAME == "OP_COLL_MOVE_RENAME"
OP_OMAP_SETKEYS == "OP_OMAP_SETKEYS"
OP_OMAP_SETHEADER == "OP_OMAP_SETHEADER"
OP_OMAP_CLEAR == "OP_OMAP_CLEAR"
OP_RMATTRS == "OP_RMATTRS"
OP_COLL_SETATTR == "OP_COLL_SETATTR"
OP_COLL_RMATTR == "OP_COLL_RMATTR"

\* the op codes the switch of _do_transaction has a case for
OpCodes ==
  {"OP_NOP", OP_TOUCH, OP_WRITE, OP_ZERO, "OP_TRIMCACHE", OP_TRUNCATE,
   OP_REMOVE, OP_SETATTR, "OP_SETATTRS", "OP_RMATTR", OP_RMATTRS,
   OP_CLONE, OP_CLONERANGE, OP_CLONERANGE2, OP_MKCOLL, OP_RMCOLL,
   "OP_COLL_ADD", "OP_COLL_REMOVE", "OP_COLL_MOVE", OP_COLL_MOVE_RENAME,
   "OP_COLL_SETATTR", "OP_COLL_RMATTR", "OP_STARTSYNC", "OP_COLL_RENAME",
   OP_OMAP_CLEAR, OP_OMAP_SETKEYS, "OP_OMAP_RMKEYS", "OP_OMAP_RMKEYRANGE",
   OP_OMAP_SETHEADER, "OP_SPLIT_COLLECTION", "OP_SPLIT_COLLECTION2"}

(***************************************************************************)
(* KeyValueStore::_clone.                                                  *)
(***************************************************************************)
_clone_found(oldoid, newoid, lk) ==
  IF lk.r < 0 THEN Res(lk.r, lk.bt)
  ELSE Res(0, clone_buffer(lk.bt, oldoid, newoid))

_clone(db, bt, oldoid, newoid) ==
  IF oldoid = newoid THEN Res(0, bt)
  ELSE _clone_found(oldoid, newoid,
                    lookup_cached_header(db, bt, oldoid, FALSE))

(***************************************************************************)
(* KeyValueStore::_collection_move_rename, within one collection.          *)
(***************************************************************************)
_collection_move_rename_old(oldoid, o, lk) ==
  IF lk.r < 0 THEN Res(lk.r, lk.bt)
  ELSE Res(0, rename_buffer(lk.bt, oldoid, o))

_collection_move_rename_new(db, oldoid, o, lk) ==
  IF lk.r = 0 THEN Res(-EEXIST, lk.bt)
  ELSE _collection_move_rename_old(
         oldoid, o, lookup_cached_header(db, lk.bt, oldoid, FALSE))

_collection_move_rename(db, bt, oldoid, o) ==
  _collection_move_rename_new(db, oldoid, o,
                              lookup_cached_header(db, bt, o, FALSE))

(***************************************************************************)
(* Collections.                                                            *)
(***************************************************************************)
\* the objects a collection can hold, in the order list_objects walks them
ObjOrder == <<"a", "b">>
CollObjs == {ObjOrder[i] : i \in DOMAIN ObjOrder}

\* GenericObjectMap::list_objects(cid, start, max, out, next) from the first
\* object on: the first max objects of the collection in the committed state
list_objects_first(found, max) ==
  SubSeq(found, 1, IF max < Len(found) THEN max ELSE Len(found))

list_objects(kv, cid, max) ==
  list_objects_first(
    SelectSeq(ObjOrder, LAMBDA o : CollOf(o) = cid /\ kv[o] # NoObj), max)

\* KeyValueStore::_create_collection
_create_collection_missing(lk) == Res(lk.r, lk.bt)

_create_collection_found(db, c, lk) ==
  IF lk.r = 0 THEN Res(-EEXIST, lk.bt)
  ELSE _create_collection_missing(
         lookup_cached_header(db, lk.bt, make_ghobject_for_coll(c), TRUE))

_create_collection(db, bt, c) ==
  _create_collection_found(
    db, c, lookup_cached_header(db, bt, make_ghobject_for_coll(c), FALSE))

\* KeyValueStore::_destroy_collection
\* the cached headers of the objects of collection c
ModifiedObjects(bt, c) ==
  {id \in DOMAIN bt.strip_headers : id \notin Colls /\ CollOf(id) = c}

\* after list_objects: oids holds at most modified_object + 1 objects
_destroy_collection_listed(bt, c, modified, oids) ==
  IF Len(oids) # Cardinality(modified) /\ Len(oids) # 0
  THEN Res(-ENOTEMPTY, bt)
  ELSE IF \E i \in DOMAIN oids : ~Cached(bt, oids[i])
  THEN Res(-ENOTEMPTY, bt)
  ELSE clear_buffer(bt, make_ghobject_for_coll(c))

\* after the lookup of the header of the collection
_destroy_collection_found(db, c, lk) ==
  IF lk.r < 0 THEN Res(lk.r, lk.bt)
  ELSE IF \E id \in ModifiedObjects(lk.bt, c) :
            ~lk.bt.strip_headers[id].deleted
  THEN Res(-ENOTEMPTY, lk.bt)
  ELSE _destroy_collection_listed(
         lk.bt, c, ModifiedObjects(lk.bt, c),
         list_objects(db, c, Cardinality(ModifiedObjects(lk.bt, c)) + 1))

_destroy_collection(db, bt, c) ==
  _destroy_collection_found(
    db, c, lookup_cached_header(db, bt, make_ghobject_for_coll(c), FALSE))

\* KeyValueStore::_collection_setattr: the attribute is a key of the object
\* of the collection, under COLLECTION_ATTR
_collection_setattr_found(c, name, bl, lk) ==
  IF lk.r < 0 THEN lk
  ELSE SetStaged(lk.bt, make_ghobject_for_coll(c),
                 set_buffer_keys(
                   lk.bt, lk.bt.strip_headers[make_ghobject_for_coll(c)],
                   <<COLLECTION_ATTR, name>> :> bl))

_collection_setattr(db, bt, c, name, bl) ==
  _collection_setattr_found(
    c, name, bl,
    lookup_cached_header(db, bt, make_ghobject_for_coll(c), FALSE))

\* KeyValueStore::_collection_rmattr
_collection_rmattr_found(c, name, lk) ==
  IF lk.r < 0 THEN lk
  ELSE SetStaged(lk.bt, make_ghobject_for_coll(c),
                 remove_buffer_keys(
                   lk.bt, lk.bt.strip_headers[make_ghobject_for_coll(c)],
                   {<<COLLECTION_ATTR, name>>}))

_collection_rmattr(db, bt, c, name) ==
  IF _check_coll(db, c) < 0 THEN Res(_check_coll(db, c), bt)
  ELSE _collection_rmattr_found(
         c, name,
         lookup_cached_header(db, bt, make_ghobject_for_coll(c), FALSE))

\* KeyValueStore::collection_getattr(c, name, bl) on the committed state:
\* [r, bl, abort].  g is what backend->get_values returned; assert(out.size())
\* follows whatever r is
collection_getattr_values(name, g) ==
  IF Cardinality(DOMAIN g.out) = 0
  THEN [r |-> IF g.r < 0 THEN -EINVAL ELSE g.r, bl |-> <<>>, abort |-> TRUE]
  ELSE [r |-> Len(g.out[<<COLLECTION_ATTR, name>>]),
        bl |-> g.out[<<COLLECTION_ATTR, name>>], abort |-> FALSE]

collection_getattr(kv, c, name) ==
  IF _check_coll(kv, c) < 0
  THEN [r |-> _check_coll(kv, c), bl |-> <<>>, abort |-> FALSE]
  ELSE collection_getattr_values(
         name, get_values(kv, make_ghobject_for_coll(c),
                          {<<COLLECTION_ATTR, name>>}))

\* the conversion of an int to the bool a function returns
IntToBool(r) == r # 0

\* KeyValueStore::exists(cid, oid) on the committed state: the bool that is
\* returned.  return r hands the int of _check_coll to a bool
exists(kv, cid, oid) ==
  IF _check_coll(kv, cid) < 0 THEN IntToBool(_check_coll(kv, cid))
  ELSE IF lookup_strip_header(kv, oid).r < 0 THEN FALSE
  ELSE TRUE

Op(op, oid, off, len, bl) ==
  [op |-> op, oid |-> oid, off |-> off, len |-> len, bl |-> bl]

\* the switch of _do_transaction
Dispatch(db, bt, o, oob, ubno) ==
  CASE o.op = OP_TOUCH -> _touch(db, bt, o.oid)
    [] o.op = OP_WRITE -> _write(db, bt, o.oid, o.off, o.len, o.bl)
    [] o.op = OP_ZERO -> _zero(db, bt, o.oid, o.off, o.len)
    [] o.op = OP_TRUNCATE -> _truncate(db, bt, o.oid, o.off, oob, ubno)
    [] o.op = OP_REMOVE -> _remove(db, bt, o.oid)
    [] o.op = OP_SETATTR -> _setattrs(db, bt, o.oid, o.name :> o.bl)
    [] o.op = OP_OMAP_SETKEYS -> _omap_setkeys(db, bt, o.oid, o.aset)
    [] o.op = OP_OMAP_SETHEADER -> _omap_setheader(db, bt, o.oid, o.bl)
    [] o.op = OP_RMATTRS -> _rmattrs(db, bt, o.oid)
    [] o.op = OP_OMAP_CLEAR -> _omap_clear(db, bt, o.oid)
    [] o.op = OP_CLONE -> _clone(db, bt, o.oid, o.noid)
    [] o.op = OP_CLONERANGE2 ->
         _clone_range(db, bt, o.oid, o.noid, o.srcoff, o.len, o.dstoff)
    [] o.op = OP_COLL_MOVE_RENAME ->
         _collection_move_rename(db, bt, o.oid, o.noid)
    [] o.op = OP_MKCOLL -> _create_collection(db, bt, o.cid)
    [] o.op = OP_RMCOLL -> _destroy_collection(db, bt, o.cid)
    [] o.op = OP_COLL_SETATTR ->
         _collection_setattr(db, bt, o.cid, o.name, o.bl)
    [] o.op = OP_COLL_RMATTR -> _collection_rmattr(db, bt, o.cid, o.name)

\* one turn of the loop of _do_transaction: the op, the check of its
\* result (only -ENOENT is tolerated for these ops), spos.op++
\* if (r < 0) after the switch, tolerating every -ENOENT
ResultOkAnyNoent(op, r) == r = -ENOENT \/ r = -ENODATA

\* if (r < 0) after the switch: ok is set for -ENOENT from an op other than
\* the clone ops, and for -ENODATA
ResultOk(op, r) ==
  \/ r = -ENOENT /\ ~(op = OP_CLONERANGE \/ op = OP_CLONE
                        \/ op = OP_CLONERANGE2)
  \/ r = -ENODATA

\* the end of a turn of the loop, d being what the op returned:
\* assert(0 == "unexpected error") unless ok, then spos.op++
_do_transaction_result(op, d) ==
  IF d.abort THEN d
  ELSE IF d.r < 0 /\ ~ResultOk(op, d.r) THEN Abort(d.bt)
  ELSE Res(d.r, [d.bt EXCEPT !.spos.op = @ + 1])

_do_transaction(db, bt, o, oob, ubno) ==
  _do_transaction_result(o.op, Dispatch(db, bt, o, oob, ubno))


(***************************************************************************)
(* State.                                                                  *)
(***************************************************************************)
VARIABLES
  \* ---- the store: KeyValueStore::_do_transactions on one thread
  db,          \* the committed key/value state of the backend
  bt,          \* the running BufferTransaction, NoBt between ops
  spc,         \* "idle", "apply" (inside _do_transactions) or "crashed"
  seq,         \* op_seq of the running or last _do_transactions
  trans_num,   \* trans_num of _do_transactions
  nops,        \* ops decoded so far by the running _do_transactions
  nbt,         \* BufferTransactions constructed so far
  nsubmit,     \* backend submit_transaction calls so far
  \* ---- what the properties refer to
  ref,         \* per object: the bytes its WRITE ops replay to
  kind,        \* per object: "W" only WRITE ops so far, "WZT" only WRITE,
               \* ZERO and TRUNCATE ops, "any" otherwise
  trunc,       \* the shrinking TRUNCATE that is the only op of the running
               \* or last BufferTransaction, NoTrunc otherwise
  keep,        \* whether the transaction lists are kept for a replay
  tls,         \* the ops of the running or last transaction list
  mode,        \* "first" application of tls, or its "replay"
  first_db     \* in a replay: db after the first application

store_vars == <<db, bt, spc, seq, trans_num, nops, nbt, nsubmit, ref, kind,
                trunc, keep, tls, mode, first_db>>

VARIABLES
  \* ---- the op pipeline: SubmitManager
  op_seq,        \* SubmitManager::op_seq
  op_submitted,  \* SubmitManager::op_submitted
  sm_lock,       \* holder of SubmitManager::lock, NoThread when free
  out_of_order,  \* the assertion of op_submit_finish has failed
  \* ---- callers inside queue_transactions
  cpc,           \* per caller: where it is in queue_transactions
  cposr,         \* per caller: the Sequencer it passed (posr)
  cosr,          \* per caller: its OpSequencer (osr)
  cop,           \* per caller: the op number of its op (o->op)
  ncalls,        \* queue_transactions calls begun so far
  \* ---- sequencers and the work queue
  posr_p,        \* per Sequencer: posr->p, 0 while it has no OpSequencer
  nosr,          \* OpSequencers created so far
  q,             \* per OpSequencer: its queue of ops (op numbers)
  apply_lock,    \* per OpSequencer: holder of apply_lock, NoThread when free
  op_queue,      \* the OpSequencers queued on op_wq
  \* ---- worker threads of op_tp
  wpc,           \* per worker: where it is in _do_op / _finish_op
  wosr,          \* per worker: the OpSequencer it processes
  wop,           \* per worker: the op it peeked (o)
  \* ---- completions
  ondisk_q,      \* ops whose ondisk was queued on ondisk_finisher, in order
  readable_q,    \* ops whose onreadable was queued on op_finisher, in order
  \* ---- what the properties refer to
  returned,      \* the values op_submit_start returned, in order
  op_osr,        \* per op number: the OpSequencer it was queued on, 0 if none
  built,         \* per op number: BufferTransactions constructed for it
  committed      \* per op number: BufferTransactions submitted for it

pipe_vars == <<op_seq, op_submitted, sm_lock, out_of_order, cpc, cposr, cosr,
               cop, ncalls, posr_p, nosr, q, apply_lock, op_queue, wpc, wosr,
               wop, ondisk_q, readable_q, returned, op_osr, built, committed>>

VARIABLES
  \* ---- what the properties of single ops refer to
  lastop,        \* the op the decoder handled last, NoOp before the first
  lastr,         \* what that op returned
  snap           \* what the reads of the objects returned at a clone

ext_vars == <<lastop, lastr, snap>>

vars == <<store_vars, pipe_vars, ext_vars>>

\* threads calling queue_transactions, the Sequencers they pass, the threads
\* of op_tp
Callers == {"c1", "c2"}
Sequencers == {"s1", "s2"}
Workers == {"w1", "w2"}
\* queue_transactions calls made in a run
MaxQueued == 3
\* OpSequencers are numbered in the order they are created
Osrs == 1 .. MaxQueued
OpNums == 1 .. MaxQueued
NoThread == "none"

InitPipeVars ==
  /\ op_seq = 0
  /\ op_submitted = 0
  /\ sm_lock = NoThread
  /\ out_of_order = FALSE
  /\ cpc = [c \in Callers |-> "idle"]
  /\ cposr = [c \in Callers |-> "s1"]
  /\ cosr = [c \in Callers |-> 0]
  /\ cop = [c \in Callers |-> 0]
  /\ ncalls = 0
  /\ posr_p = [s \in Sequencers |-> 0]
  /\ nosr = 0
  /\ q = [o \in Osrs |-> <<>>]
  /\ apply_lock = [o \in Osrs |-> NoThread]
  /\ op_queue = <<>>
  /\ wpc = [w \in Workers |-> "idle"]
  /\ wosr = [w \in Workers |-> 0]
  /\ wop = [w \in Workers |-> 0]
  /\ ondisk_q = <<>>
  /\ readable_q = <<>>
  /\ returned = <<>>
  /\ op_osr = [n \in OpNums |-> 0]
  /\ built = [n \in OpNums |-> 0]
  /\ committed = [n \in OpNums |-> 0]

NoBt == [nobt |-> TRUE]
NoOp == [op |-> "none"]
NoSnap == [nosnap |-> TRUE]

InitExtVars ==
  /\ lastop = NoOp
  /\ lastr = 0
  /\ snap = NoSnap
NoTrunc == [notrunc |-> TRUE]
NoRef == <<-1>>

\* transactions in one transaction list
MaxTrans == 2
\* stripe numbers a read past the extent list may yield
MaxUbNo == 2

\* BufferTransaction(store, spos)
BufferTransaction(kv, spos) ==
  [strip_headers |-> EmptyMap, t |-> kv, spos |-> spos]

(***************************************************************************)
(* The ops the model decodes.                                              *)
(***************************************************************************)
WriteOps == {Op(OP_WRITE, oid, off, len, Fill(b, len)) :
               oid \in Oids, off \in 0..MaxOff, len \in 0..MaxLen,
               b \in 1..MaxByte}
ZeroOps == {Op(OP_ZERO, oid, off, len, <<>>) :
               oid \in Oids, off \in 0..MaxOff, len \in 0..MaxLen}
TruncateOps == {Op(OP_TRUNCATE, oid, size, 0, <<>>) :
               oid \in Oids, size \in 0..MaxOff}
RemoveOps == {Op(OP_REMOVE, oid, 0, 0, <<>>) : oid \in Oids}
TouchOps == {Op(OP_TOUCH, oid, 0, 0, <<>>) : oid \in Oids}

\* the header _truncate works on, were it called now
TruncHeader(o) ==
  LET lk == lookup_cached_header(db, bt, o.oid, FALSE)
  IN IF lk.r < 0 THEN StripObjectHeader(o.oid)
     ELSE lk.bt.strip_headers[o.oid]

\* the outcomes of the reads of _truncate outside bits and the extent list
OobChoices(o) ==
  IF o.op = OP_TRUNCATE THEN SUBSET OobStripes(TruncHeader(o), o.off)
  ELSE {{}}
UbNoChoices(o) ==
  IF o.op = OP_TRUNCATE
  THEN LET h == TruncHeader(o)
           extents == _truncate_extents(h, o.off)
       IN IF h.max_size > o.off /\ Len(extents) = 1 /\ extents[1].offset # 0
          THEN 0..MaxUbNo ELSE {0}
  ELSE {0}

(***************************************************************************)
(* What a list of ops is meant to leave in an object: the bytes that       *)
(* replaying the ops onto an empty byte array gives.                       *)
(***************************************************************************)
Overlay(cur, off, bl) ==
  [i \in 1..Max(Len(cur), off + Len(bl)) |->
     IF i > off /\ i <= off + Len(bl) THEN bl[i - off]
     ELSE IF i <= Len(cur) THEN cur[i] ELSE 0]

RefApply(cur, o) ==
  LET base == IF cur = NoRef THEN <<>> ELSE cur
  IN CASE o.op = OP_WRITE -> Overlay(base, o.off, SubSeq(o.bl, 1, Min(o.len, Len(o.bl))))
       [] o.op = OP_ZERO -> Overlay(base, o.off, Zeros(o.len))
       [] o.op = OP_TRUNCATE ->
            IF cur = NoRef THEN NoRef
            ELSE [i \in 1..o.off |-> IF i <= Len(cur) THEN cur[i] ELSE 0]
       [] o.op = OP_REMOVE -> NoRef
       [] o.op = OP_TOUCH -> base

KindApply(k, o) ==
  CASE o.op = OP_WRITE -> k
    [] o.op \in {OP_ZERO, OP_TRUNCATE} -> IF k = "W" THEN "WZT" ELSE k
    [] OTHER -> "any"

\* the bytes of the object as its header and stripes give them: stripe n is
\* the value under its key where bits[n] is set, zeros elsewhere
Content(kv, oid) ==
  LET h == lookup_strip_header(kv, oid).h
      keys == kv[oid].keys
  IN [i \in 1..h.max_size |->
        LET n == (i - 1) \div h.strip_size
            k == ((i - 1) % h.strip_size) + 1
        IN IF InBits(h.bits, n) /\ Bit(h.bits, n) = 1
              /\ StripKey(n) \in DOMAIN keys /\ k <= Len(keys[StripKey(n)])
           THEN keys[StripKey(n)][k] ELSE 0]

(***************************************************************************)
(* The store: Init and the actions.                                        *)
(***************************************************************************)
\* the committed state the store starts in: the collection of the objects
\* has been created, it holds no object
InitDb ==
  [EmptyDb EXCEPT !["c"] = [data |-> encode(StripObjectHeader("c")),
                            keys |-> EmptyMap]]

InitStoreVars ==
  /\ db = InitDb
  /\ bt = NoBt
  /\ spc = "idle"
  /\ seq = 0
  /\ trans_num = 0
  /\ nops = 0
  /\ nbt = 0
  /\ nsubmit = 0
  /\ ref = [o \in Oids |-> NoRef]
  /\ kind = [o \in Oids |-> "W"]
  /\ trunc = NoTrunc
  /\ tls = <<>>
  /\ mode = "first"
  /\ first_db = EmptyDb

\* _do_transactions, up to the construction of the BufferTransaction
BeginOp ==
  /\ spc = "idle"
  /\ seq < MaxStoreOps
  /\ seq' = seq + 1
  /\ bt' = BufferTransaction(db, [seq |-> seq + 1, trans |-> 0, op |-> 0])
  /\ nbt' = nbt + 1
  /\ spc' = "apply"
  /\ trans_num' = 0
  /\ nops' = 0
  /\ tls' = <<>>
  /\ mode' = "first"
  /\ trunc' = NoTrunc
  /\ first_db' = EmptyDb
  /\ UNCHANGED <<db, nsubmit, ref, kind, keep>>
  /\ UNCHANGED <<pipe_vars, ext_vars>>

\* the shrinking TRUNCATE o, when it is the first op of the list
TruncOf(o) ==
  LET h == lookup_strip_header(db, o.oid)
  IN IF o.op = OP_TRUNCATE /\ nops = 0 /\ h.r = 0 /\ h.h.max_size > o.off
     THEN [oid |-> o.oid, size |-> o.off, old_max_size |-> h.h.max_size,
           orig |-> Content(db, o.oid)]
     ELSE NoTrunc

\* one op of _do_transaction, decoded and applied to the BufferTransaction
DoOp(o, oob, ubno) ==
  LET d == _do_transaction(db, bt, o, oob, ubno)
  IN /\ spc = "apply"
     /\ mode = "first"
     /\ nops < MaxOps
     /\ bt' = d.bt
     /\ spc' = IF d.abort THEN "crashed" ELSE "apply"
     /\ nops' = nops + 1
     /\ tls' = IF keep THEN Append(tls, o) ELSE tls
     /\ ref' = [ref EXCEPT ![o.oid] = RefApply(@, o)]
     /\ kind' = [kind EXCEPT ![o.oid] = KindApply(@, o)]
     /\ trunc' = TruncOf(o)
     /\ UNCHANGED <<db, seq, trans_num, nbt, nsubmit, keep, mode, first_db>>
     /\ UNCHANGED <<pipe_vars, ext_vars>>

DoWrite ==
  \E o \in WriteOps : DoOp(o, {}, 0)

DoZero ==
  \E o \in ZeroOps : DoOp(o, {}, 0)

DoTruncate ==
  /\ spc = "apply"
  /\ \E o \in TruncateOps :
       \E oob \in OobChoices(o) : \E ubno \in UbNoChoices(o) :
         DoOp(o, oob, ubno)

DoRemove ==
  \E o \in RemoveOps : DoOp(o, {}, 0)

DoTouch ==
  \E o \in TouchOps : DoOp(o, {}, 0)

\* _do_transactions that submits after each transaction of the list and goes
\* on with a new BufferTransaction
NextTransactionSubmit ==
  /\ spc = "apply"
  /\ mode = "first"
  /\ trans_num < MaxTrans - 1
  /\ trans_num' = trans_num + 1
  /\ db' = submit_transaction(bt)
  /\ nsubmit' = nsubmit + 1
  /\ bt' = BufferTransaction(db', bt.spos)
  /\ nbt' = nbt + 1
  /\ UNCHANGED <<spc, seq, nops, ref, kind, trunc, keep, tls, mode, first_db>>
  /\ UNCHANGED <<pipe_vars, ext_vars>>

\* the loop of _do_transactions moves to the next transaction of the list
NextTransaction ==
  /\ spc = "apply"
  /\ mode = "first"
  /\ trans_num < MaxTrans - 1
  /\ trans_num' = trans_num + 1
  /\ UNCHANGED <<db, bt, spc, seq, nops, nbt, nsubmit, ref, kind, trunc,
                 keep, tls, mode, first_db>>
  /\ UNCHANGED <<pipe_vars, ext_vars>>

\* the end of _do_transactions: bt.submit_transaction()
SubmitOp ==
  /\ spc = "apply"
  /\ mode = "first"
  /\ db' = submit_transaction(bt)
  /\ nsubmit' = nsubmit + 1
  /\ bt' = NoBt
  /\ spc' = "idle"
  /\ UNCHANGED <<seq, trans_num, nops, nbt, ref, kind, trunc, keep, tls,
                 mode, first_db>>
  /\ UNCHANGED <<pipe_vars, ext_vars>>

NextStore ==
  \/ BeginOp
  \/ DoWrite
  \/ DoZero
  \/ DoTruncate
  \/ DoRemove
  \/ DoTouch
  \/ NextTransaction
  \/ SubmitOp

InitStore == InitStoreVars /\ keep = FALSE /\ InitPipeVars /\ InitExtVars

SpecStore == InitStore /\ [][NextStore]_vars


(***************************************************************************)
(* One op of any kind decoded by _do_transaction: the switch, the check of *)
(* the result, spos.op++.                                                  *)
(***************************************************************************)
\* d is what the case of the switch returned
ApplyDispatched(o, d) ==
  /\ bt' = _do_transaction_result(o.op, d).bt
  /\ spc' = IF _do_transaction_result(o.op, d).abort
            THEN "crashed" ELSE "apply"
  /\ lastop' = o
  /\ lastr' = d.r

\* a list of at most max ops
ApplyOpWithin(o, oob, ubno, max) ==
  /\ spc = "apply"
  /\ mode = "first"
  /\ nops < max
  /\ ApplyDispatched(o, Dispatch(db, bt, o, oob, ubno))
  /\ nops' = nops + 1
  /\ UNCHANGED <<db, seq, trans_num, nbt, nsubmit, ref, kind, trunc, keep,
                 tls, mode, first_db, snap>>
  /\ UNCHANGED pipe_vars

ApplyOp(o, oob, ubno) == ApplyOpWithin(o, oob, ubno, MaxOps)

(***************************************************************************)
(* Attributes and omap of an object.                                       *)
(***************************************************************************)
AttrNames == {"k1", "k2"}
AttrValues == {<<>>} \cup {<<b>> : b \in 1..MaxByte}

SetattrOps ==
  {[op |-> OP_SETATTR, oid |-> oid, name |-> n, bl |-> v] :
     oid \in Oids, n \in AttrNames, v \in AttrValues}
OmapSetkeysOps ==
  {[op |-> OP_OMAP_SETKEYS, oid |-> oid, aset |-> aset] :
     oid \in Oids,
     aset \in UNION {[names -> AttrValues] : names \in SUBSET AttrNames}}
OmapSetheaderOps ==
  {[op |-> OP_OMAP_SETHEADER, oid |-> oid, bl |-> v] :
     oid \in Oids, v \in AttrValues}

DoSetattr == \E o \in SetattrOps : ApplyOp(o, {}, 0)
DoOmapSetkeys == \E o \in OmapSetkeysOps : ApplyOp(o, {}, 0)
DoOmapSetheader == \E o \in OmapSetheaderOps : ApplyOp(o, {}, 0)
ApplyTouch == \E o \in TouchOps : ApplyOp(o, {}, 0)
ApplyRemove == \E o \in RemoveOps : ApplyOp(o, {}, 0)

NextAttr ==
  \/ BeginOp
  \/ ApplyTouch
  \/ ApplyRemove
  \/ DoSetattr
  \/ DoOmapSetkeys
  \/ DoOmapSetheader
  \/ SubmitOp

SpecAttr == InitStore /\ [][NextAttr]_vars

(***************************************************************************)
(* Collections: MKCOLL and RMCOLL next to TOUCH and REMOVE of the objects  *)
(* of the collection.                                                      *)
(***************************************************************************)
\* the ops one transaction list decodes at most
MaxCollOps == 4

MkcollOps == {[op |-> OP_MKCOLL, cid |-> c] : c \in Colls}
RmcollOps == {[op |-> OP_RMCOLL, cid |-> c] : c \in Colls}
CollTouchOps == {Op(OP_TOUCH, oid, 0, 0, <<>>) : oid \in CollObjs}
CollRemoveOps == {Op(OP_REMOVE, oid, 0, 0, <<>>) : oid \in CollObjs}

DoMkcoll == \E o \in MkcollOps : ApplyOpWithin(o, {}, 0, MaxCollOps)
DoRmcoll == \E o \in RmcollOps : ApplyOpWithin(o, {}, 0, MaxCollOps)
CollTouch == \E o \in CollTouchOps : ApplyOpWithin(o, {}, 0, MaxCollOps)
CollRemove == \E o \in CollRemoveOps : ApplyOpWithin(o, {}, 0, MaxCollOps)

NextColl ==
  \/ BeginOp
  \/ DoMkcoll
  \/ DoRmcoll
  \/ CollTouch
  \/ CollRemove
  \/ SubmitOp

SpecColl == InitStore /\ [][NextColl]_vars

(***************************************************************************)
(* CLONE next to WRITE and TRUNCATE of the source and of the target.       *)
(***************************************************************************)
CloneWriteOps == {Op(OP_WRITE, oid, off, len, Fill(b, len)) :
                    oid \in CollObjs, off \in 0..MaxOff, len \in 1..MaxLen,
                    b \in 1..MaxByte}
CloneTruncateOps == {Op(OP_TRUNCATE, oid, size, 0, <<>>) :
                       oid \in CollObjs, size \in 0..MaxOff}
CloneObjectOps == {[op |-> OP_CLONE, oid |-> src, noid |-> dst] :
                     src \in CollObjs, dst \in CollObjs}

\* what read and stat return of a committed object
ReadStat(kv, oid) ==
  [read |-> read(kv, oid, 0, 0),
   size |-> lookup_strip_header(kv, oid).h.max_size]

\* snap after op o returned r: a CLONE that returned 0 records the source,
\* the target, what read and stat return of the source, and whether the
\* source was untouched in the BufferTransaction b before; a later op
\* records which of the two it mutates
SnapApply(sn, o, r, kv, b) ==
  IF o.op = OP_CLONE
  THEN IF r = 0 /\ o.oid # o.noid
       THEN [src |-> o.oid, dst |-> o.noid, img |-> ReadStat(kv, o.oid),
             clean |-> ~Cached(b, o.oid),
             src_mut |-> FALSE, dst_mut |-> FALSE]
       ELSE sn
  ELSE IF sn = NoSnap THEN sn
  ELSE [sn EXCEPT !.src_mut = @ \/ o.oid = sn.src,
                  !.dst_mut = @ \/ o.oid = sn.dst]

\* d with the trace of the null handle wiped: the call had no effect
Survive(d) == [d EXCEPT !.bt.t[NullId] = NoObj]

\* one turn of the loop of _do_transaction, d being what the case of the
\* switch returned.  A call through a null handle either kills the process
\* or has no effect.
CloneOpEnds(o, d) ==
  \/ /\ ~DerefedNull(d.bt.t)
     /\ bt' = _do_transaction_result(o.op, d).bt
     /\ spc' = IF _do_transaction_result(o.op, d).abort
               THEN "crashed" ELSE "apply"
  \/ /\ DerefedNull(d.bt.t)
     /\ bt' = _do_transaction_result(o.op, Survive(d)).bt
     /\ spc' = IF _do_transaction_result(o.op, Survive(d)).abort
               THEN "crashed" ELSE "apply"
  \/ /\ DerefedNull(d.bt.t)
     /\ bt' = d.bt
     /\ spc' = "crashed"

CloneOpApplied(o, d) ==
  /\ spc = "apply"
  /\ mode = "first"
  /\ nops < MaxOps
  /\ CloneOpEnds(o, d)
  /\ nops' = nops + 1
  /\ lastop' = o
  /\ lastr' = d.r
  /\ snap' = SnapApply(snap, o, d.r, db, bt)
  /\ UNCHANGED <<db, seq, trans_num, nbt, nsubmit, ref, kind, trunc, keep,
                 tls, mode, first_db>>
  /\ UNCHANGED pipe_vars

CloneOp(o, oob, ubno) == CloneOpApplied(o, Dispatch(db, bt, o, oob, ubno))

DoClone == \E o \in CloneObjectOps : CloneOp(o, {}, 0)
CloneWrite == \E o \in CloneWriteOps : CloneOp(o, {}, 0)
CloneTruncate ==
  /\ spc = "apply"
  /\ \E o \in CloneTruncateOps :
       \E oob \in OobChoices(o) : \E ubno \in UbNoChoices(o) :
         CloneOp(o, oob, ubno)

\* the end of _do_transactions: bt.submit_transaction(), t being the state
\* it hands to the backend
CloneSubmitted(t) ==
  /\ spc = "apply"
  /\ mode = "first"
  /\ \/ /\ ~DerefedNull(t)
        /\ db' = t
        /\ bt' = NoBt
        /\ spc' = "idle"
     \/ /\ DerefedNull(t)
        /\ db' = [t EXCEPT ![NullId] = NoObj]
        /\ bt' = NoBt
        /\ spc' = "idle"
     \/ /\ DerefedNull(t)
        /\ db' = db
        /\ bt' = [bt EXCEPT !.t = t]
        /\ spc' = "crashed"
  /\ nsubmit' = nsubmit + 1
  /\ UNCHANGED <<seq, trans_num, nops, nbt, ref, kind, trunc, keep, tls,
                 mode, first_db>>
  /\ UNCHANGED <<pipe_vars, ext_vars>>

SubmitClone == CloneSubmitted(submit_transaction(bt))

NextClone ==
  \/ BeginOp
  \/ DoClone
  \/ CloneWrite
  \/ CloneTruncate
  \/ SubmitClone

SpecClone == InitStore /\ [][NextClone]_vars


(***************************************************************************)
(* The decoder's check of what an op returned, for every op code and the   *)
(* results an op can hand back.                                            *)
(***************************************************************************)
OpResults == {0, -ENOENT, -ENODATA, -ENOSPC, -EEXIST, -ENOTEMPTY, -EINVAL}

\* one turn of the loop of _do_transaction whose op has the code op and
\* returns r
DecodeOp ==
  /\ spc = "apply"
  /\ nops < MaxOps
  /\ \E op \in OpCodes : \E r \in OpResults :
       /\ bt' = _do_transaction_result(op, Res(r, bt)).bt
       /\ spc' = IF _do_transaction_result(op, Res(r, bt)).abort
                 THEN "crashed" ELSE "apply"
       /\ lastop' = [op |-> op]
       /\ lastr' = r
  /\ nops' = nops + 1
  /\ UNCHANGED <<db, seq, trans_num, nbt, nsubmit, ref, kind, trunc, keep,
                 tls, mode, first_db, snap>>
  /\ UNCHANGED pipe_vars

NextDecode ==
  \/ BeginOp
  \/ DecodeOp
  \/ SubmitOp

SpecDecode == InitStore /\ [][NextDecode]_vars


(***************************************************************************)
(* Replay of a transaction list with the op_seq it was first applied with. *)
(***************************************************************************)
\* _do_transactions is entered again with the list and op_seq of the last op
BeginReplay ==
  /\ spc = "idle"
  /\ keep
  /\ mode = "first"
  /\ seq >= 1
  /\ bt' = BufferTransaction(db, [seq |-> seq, trans |-> 0, op |-> 0])
  /\ nbt' = nbt + 1
  /\ spc' = "apply"
  /\ mode' = "replay"
  /\ trans_num' = 0
  /\ nops' = 0
  /\ first_db' = db
  /\ UNCHANGED <<db, seq, nsubmit, ref, kind, trunc, keep, tls>>
  /\ UNCHANGED <<pipe_vars, ext_vars>>

\* the next op of the list is decoded again
ReplayOp ==
  /\ spc = "apply"
  /\ mode = "replay"
  /\ nops < Len(tls)
  /\ LET o == tls[nops + 1]
     IN \E oob \in OobChoices(o) : \E ubno \in UbNoChoices(o) :
          LET d == _do_transaction(db, bt, o, oob, ubno)
          IN /\ bt' = d.bt
             /\ spc' = IF d.abort THEN "crashed" ELSE "apply"
  /\ nops' = nops + 1
  /\ UNCHANGED <<db, seq, trans_num, nbt, nsubmit, ref, kind, trunc, keep,
                 tls, mode, first_db>>
  /\ UNCHANGED <<pipe_vars, ext_vars>>

\* the replayed list is committed
SubmitReplay ==
  /\ spc = "apply"
  /\ mode = "replay"
  /\ nops = Len(tls)
  /\ db' = submit_transaction(bt)
  /\ nsubmit' = nsubmit + 1
  /\ bt' = NoBt
  /\ spc' = "idle"
  /\ UNCHANGED <<seq, trans_num, nops, nbt, ref, kind, trunc, keep, tls,
                 mode, first_db>>
  /\ UNCHANGED <<pipe_vars, ext_vars>>

NextReplay ==
  \/ NextStore
  \/ BeginReplay
  \/ ReplayOp
  \/ SubmitReplay

InitReplay == InitStoreVars /\ keep = TRUE /\ InitPipeVars /\ InitExtVars

SpecReplay == InitReplay /\ [][NextReplay]_vars


(***************************************************************************)
(* The op pipeline: queue_transactions on the callers' threads, _do_op and *)
(* _finish_op on the threads of op_tp.  The transactions of an op are      *)
(* applied by _do_transactions, whose steps are the actions of SpecStore;  *)
(* here an op is its op number.                                            *)
(***************************************************************************)
caller_vars == <<cpc, cposr, cosr, cop, ncalls>>
worker_vars == <<wpc, wosr, wop>>
submit_vars == <<op_seq, op_submitted, sm_lock, out_of_order, returned>>

\* queue_transactions, "set up the sequencer": the test of posr->p
queue_transactions(c, s) ==
  /\ cpc[c] = "idle"
  /\ ncalls < MaxQueued
  /\ ncalls' = ncalls + 1
  /\ cposr' = [cposr EXCEPT ![c] = s]
  /\ IF posr_p[s] # 0
       THEN /\ cosr' = [cosr EXCEPT ![c] = posr_p[s]]
            /\ cpc' = [cpc EXCEPT ![c] = "build"]
       ELSE /\ cosr' = cosr
            /\ cpc' = [cpc EXCEPT ![c] = "new"]
  /\ UNCHANGED <<cop, posr_p, nosr, q, apply_lock, op_queue, ondisk_q,
                 readable_q, op_osr, built, committed>>
  /\ UNCHANGED <<submit_vars, worker_vars, store_vars, ext_vars>>

\* queue_transactions, the else branch: osr = new OpSequencer; posr->p = osr
new_OpSequencer(c) ==
  /\ cpc[c] = "new"
  /\ nosr' = nosr + 1
  /\ posr_p' = [posr_p EXCEPT ![cposr[c]] = nosr + 1]
  /\ cosr' = [cosr EXCEPT ![c] = nosr + 1]
  /\ cpc' = [cpc EXCEPT ![c] = "build"]
  /\ UNCHANGED <<cposr, cop, ncalls, q, apply_lock, op_queue, ondisk_q,
                 readable_q, op_osr, built, committed>>
  /\ UNCHANGED <<submit_vars, worker_vars, store_vars, ext_vars>>

\* op_submit_start without lock.Lock()
op_submit_start_unlocked(c) ==
  /\ cpc[c] = "build"
  /\ op_seq' = op_seq + 1
  /\ cop' = [cop EXCEPT ![c] = op_seq + 1]
  /\ returned' = Append(returned, op_seq + 1)
  /\ cpc' = [cpc EXCEPT ![c] = "started"]
  /\ UNCHANGED <<sm_lock, op_submitted, out_of_order, cposr, cosr, ncalls,
                 posr_p, nosr, q, apply_lock, op_queue, ondisk_q, readable_q,
                 op_osr, built, committed>>
  /\ UNCHANGED <<worker_vars, store_vars, ext_vars>>

\* build_op, then SubmitManager::op_submit_start and o->op = op
op_submit_start(c) ==
  /\ cpc[c] = "build"
  /\ sm_lock = NoThread
  /\ sm_lock' = c
  /\ op_seq' = op_seq + 1
  /\ cop' = [cop EXCEPT ![c] = op_seq + 1]
  /\ returned' = Append(returned, op_seq + 1)
  /\ cpc' = [cpc EXCEPT ![c] = "started"]
  /\ UNCHANGED <<op_submitted, out_of_order, cposr, cosr, ncalls, posr_p,
                 nosr, q, apply_lock, op_queue, ondisk_q, readable_q, op_osr,
                 built, committed>>
  /\ UNCHANGED <<worker_vars, store_vars, ext_vars>>

\* queue_op: osr->queue(o)
queue_op_osr(c) ==
  /\ cpc[c] = "started"
  /\ q' = [q EXCEPT ![cosr[c]] = Append(@, cop[c])]
  /\ op_osr' = [op_osr EXCEPT ![cop[c]] = cosr[c]]
  /\ cpc' = [cpc EXCEPT ![c] = "osr_queued"]
  /\ UNCHANGED <<cposr, cosr, cop, ncalls, posr_p, nosr, apply_lock,
                 op_queue, ondisk_q, readable_q, built, committed>>
  /\ UNCHANGED <<submit_vars, worker_vars, store_vars, ext_vars>>

\* queue_op: op_wq.queue(osr)
queue_op_wq(c) ==
  /\ cpc[c] = "osr_queued"
  /\ op_queue' = Append(op_queue, cosr[c])
  /\ cpc' = [cpc EXCEPT ![c] = "queued"]
  /\ UNCHANGED <<cposr, cosr, cop, ncalls, posr_p, nosr, q, apply_lock,
                 ondisk_q, readable_q, op_osr, built, committed>>
  /\ UNCHANGED <<submit_vars, worker_vars, store_vars, ext_vars>>

\* SubmitManager::op_submit_finish, and the return of queue_transactions
op_submit_finish(c) ==
  /\ cpc[c] = "queued"
  /\ IF cop[c] # op_submitted + 1
       THEN /\ out_of_order' = TRUE
            /\ cpc' = [cpc EXCEPT ![c] = "aborted"]
            /\ UNCHANGED <<op_submitted, sm_lock>>
       ELSE /\ op_submitted' = cop[c]
            /\ sm_lock' = NoThread
            /\ cpc' = [cpc EXCEPT ![c] = "idle"]
            /\ UNCHANGED out_of_order
  /\ cosr' = [cosr EXCEPT ![c] = 0]
  /\ cop' = [cop EXCEPT ![c] = 0]
  /\ UNCHANGED <<op_seq, returned, cposr, ncalls, posr_p, nosr, q,
                 apply_lock, op_queue, ondisk_q, readable_q, op_osr, built,
                 committed>>
  /\ UNCHANGED <<worker_vars, store_vars, ext_vars>>

\* a thread of op_tp takes the next OpSequencer off op_wq
_dequeue(w) ==
  /\ wpc[w] = "idle"
  /\ op_queue # <<>>
  /\ wosr' = [wosr EXCEPT ![w] = Head(op_queue)]
  /\ op_queue' = Tail(op_queue)
  /\ wpc' = [wpc EXCEPT ![w] = "do_op"]
  /\ UNCHANGED <<wop, posr_p, nosr, q, apply_lock, ondisk_q, readable_q,
                 op_osr, built, committed>>
  /\ UNCHANGED <<submit_vars, caller_vars, store_vars, ext_vars>>

\* _do_op going on without osr->apply_lock.Lock()
_do_op_lock_free(w) ==
  /\ wpc[w] = "do_op"
  /\ wpc' = [wpc EXCEPT ![w] = "locked"]
  /\ UNCHANGED <<wosr, wop, posr_p, nosr, q, apply_lock, op_queue, ondisk_q,
                 readable_q, op_osr, built, committed>>
  /\ UNCHANGED <<submit_vars, caller_vars, store_vars, ext_vars>>

\* _do_op: osr->apply_lock.Lock()
_do_op_lock(w) ==
  /\ wpc[w] = "do_op"
  /\ apply_lock[wosr[w]] = NoThread
  /\ apply_lock' = [apply_lock EXCEPT ![wosr[w]] = w]
  /\ wpc' = [wpc EXCEPT ![w] = "locked"]
  /\ UNCHANGED <<wosr, wop, posr_p, nosr, q, op_queue, ondisk_q, readable_q,
                 op_osr, built, committed>>
  /\ UNCHANGED <<submit_vars, caller_vars, store_vars, ext_vars>>

\* _do_op taking the op off the queue and giving apply_lock back before
\* the transactions are applied
_do_op_dequeue_early(w) ==
  /\ wpc[w] = "locked"
  /\ q[wosr[w]] # <<>>
  /\ wop' = [wop EXCEPT ![w] = Head(q[wosr[w]])]
  /\ q' = [q EXCEPT ![wosr[w]] = Tail(@)]
  /\ apply_lock' = [apply_lock EXCEPT ![wosr[w]] = NoThread]
  /\ built' = [built EXCEPT ![Head(q[wosr[w]])] = @ + 1]
  /\ wpc' = [wpc EXCEPT ![w] = "apply"]
  /\ UNCHANGED <<wosr, posr_p, nosr, op_queue, ondisk_q, readable_q, op_osr,
                 committed>>
  /\ UNCHANGED <<submit_vars, caller_vars, store_vars, ext_vars>>

\* _do_op: o = osr->peek_queue(), and _do_transactions up to the
\* construction of the BufferTransaction
_do_op_peek(w) ==
  /\ wpc[w] = "locked"
  /\ q[wosr[w]] # <<>>
  /\ wop' = [wop EXCEPT ![w] = Head(q[wosr[w]])]
  /\ built' = [built EXCEPT ![Head(q[wosr[w]])] = @ + 1]
  /\ wpc' = [wpc EXCEPT ![w] = "apply"]
  /\ UNCHANGED <<wosr, posr_p, nosr, q, apply_lock, op_queue, ondisk_q,
                 readable_q, op_osr, committed>>
  /\ UNCHANGED <<submit_vars, caller_vars, store_vars, ext_vars>>

\* _do_transactions returning before bt.submit_transaction() has returned
_do_transactions_async(w) ==
  /\ wpc[w] = "apply"
  /\ wpc' = [wpc EXCEPT ![w] = "submitted"]
  /\ UNCHANGED <<wosr, wop, posr_p, nosr, q, apply_lock, op_queue, ondisk_q,
                 readable_q, op_osr, built, committed>>
  /\ UNCHANGED <<submit_vars, caller_vars, store_vars, ext_vars>>

\* _do_transactions: the transactions are applied and bt.submit_transaction()
\* returns
_do_transactions(w) ==
  /\ wpc[w] = "apply"
  /\ committed' = [committed EXCEPT ![wop[w]] = @ + 1]
  /\ wpc' = [wpc EXCEPT ![w] = "submitted"]
  /\ UNCHANGED <<wosr, wop, posr_p, nosr, q, apply_lock, op_queue, ondisk_q,
                 readable_q, op_osr, built>>
  /\ UNCHANGED <<submit_vars, caller_vars, store_vars, ext_vars>>

\* _do_op: ondisk_finisher.queue(o->ondisk, r), r being 0
_do_op_ondisk(w) ==
  /\ wpc[w] = "submitted"
  /\ ondisk_q' = Append(ondisk_q, wop[w])
  /\ wpc' = [wpc EXCEPT ![w] = "finish"]
  /\ UNCHANGED <<wosr, wop, posr_p, nosr, q, apply_lock, op_queue,
                 readable_q, op_osr, built, committed>>
  /\ UNCHANGED <<submit_vars, caller_vars, store_vars, ext_vars>>

\* _finish_op that dequeues and keeps apply_lock
_finish_op_keep_lock(w) ==
  /\ wpc[w] = "finish"
  /\ q[wosr[w]] # <<>>
  /\ wop' = [wop EXCEPT ![w] = Head(q[wosr[w]])]
  /\ q' = [q EXCEPT ![wosr[w]] = Tail(@)]
  /\ wpc' = [wpc EXCEPT ![w] = "readable"]
  /\ UNCHANGED <<wosr, posr_p, nosr, apply_lock, op_queue, ondisk_q,
                 readable_q, op_osr, built, committed>>
  /\ UNCHANGED <<submit_vars, caller_vars, store_vars, ext_vars>>

\* _finish_op: o = osr->dequeue(); osr->apply_lock.Unlock()
_finish_op(w) ==
  /\ wpc[w] = "finish"
  /\ q[wosr[w]] # <<>>
  /\ wop' = [wop EXCEPT ![w] = Head(q[wosr[w]])]
  /\ q' = [q EXCEPT ![wosr[w]] = Tail(@)]
  /\ apply_lock' = [apply_lock EXCEPT ![wosr[w]] = NoThread]
  /\ wpc' = [wpc EXCEPT ![w] = "readable"]
  /\ UNCHANGED <<wosr, posr_p, nosr, op_queue, ondisk_q, readable_q, op_osr,
                 built, committed>>
  /\ UNCHANGED <<submit_vars, caller_vars, store_vars, ext_vars>>

\* _finish_op queueing ondisk as well, after the dequeue and the unlock
_finish_op_readable_ondisk(w) ==
  /\ wpc[w] = "readable"
  /\ readable_q' = Append(readable_q, wop[w])
  /\ ondisk_q' = Append(ondisk_q, wop[w])
  /\ wpc' = [wpc EXCEPT ![w] = "idle"]
  /\ wosr' = [wosr EXCEPT ![w] = 0]
  /\ wop' = [wop EXCEPT ![w] = 0]
  /\ UNCHANGED <<posr_p, nosr, q, apply_lock, op_queue, op_osr, built,
                 committed>>
  /\ UNCHANGED <<submit_vars, caller_vars, store_vars, ext_vars>>

\* _finish_op: onreadable_sync completes, op_finisher.queue(o->onreadable)
_finish_op_readable(w) ==
  /\ wpc[w] = "readable"
  /\ readable_q' = Append(readable_q, wop[w])
  /\ wpc' = [wpc EXCEPT ![w] = "idle"]
  /\ wosr' = [wosr EXCEPT ![w] = 0]
  /\ wop' = [wop EXCEPT ![w] = 0]
  /\ UNCHANGED <<posr_p, nosr, q, apply_lock, op_queue, ondisk_q,
                 op_osr, built, committed>>
  /\ UNCHANGED <<submit_vars, caller_vars, store_vars, ext_vars>>

\* the steps of a call of queue_transactions after it has begun
Submitting(c) ==
  \/ new_OpSequencer(c)
  \/ op_submit_start(c)
  \/ queue_op_osr(c)
  \/ queue_op_wq(c)
  \/ op_submit_finish(c)

\* the steps of a thread of op_tp
Worker(w) ==
  \/ _dequeue(w)
  \/ _do_op_lock(w)
  \/ _do_op_peek(w)
  \/ _do_transactions(w)
  \/ _do_op_ondisk(w)
  \/ _finish_op(w)
  \/ _finish_op_readable(w)

Next ==
  \/ \E c \in Callers, s \in Sequencers : queue_transactions(c, s)
  \/ \E c \in Callers : new_OpSequencer(c)
  \/ \E c \in Callers : op_submit_start(c)
  \/ \E c \in Callers : queue_op_osr(c)
  \/ \E c \in Callers : queue_op_wq(c)
  \/ \E c \in Callers : op_submit_finish(c)
  \/ \E w \in Workers : _dequeue(w)
  \/ \E w \in Workers : _do_op_lock(w)
  \/ \E w \in Workers : _do_op_peek(w)
  \/ \E w \in Workers : _do_transactions(w)
  \/ \E w \in Workers : _do_op_ondisk(w)
  \/ \E w \in Workers : _finish_op(w)
  \/ \E w \in Workers : _finish_op_readable(w)

Init == InitStoreVars /\ keep = FALSE /\ InitPipeVars /\ InitExtVars

Spec == Init /\ [][Next]_vars

\* every thread of op_tp keeps running, and a thread inside
\* queue_transactions runs until it returns
FairSpec ==
  /\ Init
  /\ [][Next]_vars
  /\ \A w \in Workers : WF_vars(Worker(w))
  /\ \A c \in Callers : WF_vars(Submitting(c))


(***************************************************************************)
(* Properties of the op pipeline.                                          *)
(***************************************************************************)
Count(sq, x) == Cardinality({i \in DOMAIN sq : sq[i] = x})
Elems(sq) == {sq[i] : i \in DOMAIN sq}
Queued(n) == op_osr[n] # 0
InQueue(n) == \E o \in Osrs : n \in Elems(q[o])

\* C1: of two ops A and B queued on the same sequencer, A before B, the
\* BufferTransaction of B is constructed only after the submit of A's
\* BufferTransaction has completed.
C1_SequencerOrder ==
  \A A \in OpNums, B \in OpNums :
    (/\ A < B
     /\ Queued(A) /\ Queued(B)
     /\ op_osr[A] = op_osr[B]
     /\ built[B] > 0) => committed[A] > 0

\* two ops of one sequencer: the first is committed, the second is being
\* applied by the other worker thread and is not committed yet
C1_Witness ==
  /\ op_osr[1] # 0
  /\ op_osr[1] = op_osr[2]
  /\ built = [n \in OpNums |-> IF n <= 2 THEN 1 ELSE 0]
  /\ committed = [n \in OpNums |-> IF n = 1 THEN 1 ELSE 0]
  /\ wpc["w2"] = "apply"
  /\ wop["w2"] = 2
  /\ wpc["w1"] = "idle"

\* C6: the values op_submit_start returns are 1, 2, 3, ... in order, with
\* no value repeated or skipped, whatever the number of calling threads, and
\* the in-order assertion of op_submit_finish never fails.
C6_SubmitOrder ==
  /\ returned = [i \in 1 .. Len(returned) |-> i]
  /\ ~out_of_order
  /\ op_submitted <= op_seq
  /\ op_seq <= op_submitted + 1

\* two calls have been numbered, one has returned, and the other thread
\* waits for the submit mutex
C6_Witness ==
  /\ returned = <<1, 2>>
  /\ op_submitted = 1
  /\ cop["c1"] = 2
  /\ sm_lock = "c1"
  /\ cpc["c2"] = "build"

\* C7: the op numbers in the queue of a sequencer are strictly increasing
\* from front to back.
C7_QueueIncreasing ==
  \A o \in Osrs : \A i \in DOMAIN q[o], j \in DOMAIN q[o] :
    i < j => q[o][i] < q[o][j]

\* three ops wait in one sequencer's queue, the last one just queued
C7_Witness ==
  /\ \E o \in Osrs : q[o] = <<1, 2, 3>>
  /\ cop["c2"] = 3
  /\ cpc["c2"] = "osr_queued"

Done(n) ==
  /\ built[n] = 1
  /\ committed[n] = 1
  /\ ~InQueue(n)
  /\ Count(readable_q, n) = 1
  /\ Count(ondisk_q, n) = 1

Holding(o) ==
  {w \in Workers :
     wosr[w] = o /\ wpc[w] \in {"locked", "apply", "submitted", "finish"}}

\* C18: each op queued on a sequencer is applied exactly once: the op that
\* _do_op peeked is still the head of the queue when _finish_op dequeues it,
\* no op is applied twice, no op leaves the queue unapplied, and at most one
\* worker is between the Lock of _do_op and the Unlock of _finish_op of a
\* sequencer.
C18_AppliedOnce ==
  /\ \A o \in Osrs : Cardinality(Holding(o)) <= 1
  /\ \A w \in Workers :
       wpc[w] \in {"apply", "submitted", "finish"} =>
         /\ q[wosr[w]] # <<>>
         /\ Head(q[wosr[w]]) = wop[w]
  /\ \A n \in OpNums :
       /\ built[n] <= 1
       /\ committed[n] <= 1
       /\ (Queued(n) /\ ~InQueue(n)) => (built[n] = 1 /\ committed[n] = 1)

\* one worker is about to dequeue op 1 while the other waits for the
\* apply_lock of the same sequencer, where op 2 is queued
C18_Witness ==
  /\ wpc["w1"] = "finish"
  /\ wop["w1"] = 1
  /\ wpc["w2"] = "do_op"
  /\ wosr["w2"] = wosr["w1"]
  /\ q[wosr["w1"]] = <<1, 2>>
  /\ apply_lock[wosr["w1"]] = "w1"

\* C19: no completion of an op (on_readable_sync, on_readable, on_disk) is
\* invoked or queued before submit_transaction of the op's BufferTransaction
\* has returned.
C19_CompletionsAfterSubmit ==
  /\ \A n \in OpNums :
       (n \in Elems(ondisk_q) \/ n \in Elems(readable_q)) => committed[n] >= 1
  /\ \A w \in Workers :
       wpc[w] \in {"finish", "readable"} => committed[wop[w]] >= 1

\* the only op queued has been committed and both its completions queued
C19_Witness ==
  /\ ncalls = 1
  /\ committed[1] = 1
  /\ ondisk_q = <<1>>
  /\ readable_q = <<1>>
  /\ \A w \in Workers : wpc[w] = "idle"

\* C20: the op is dequeued from its sequencer and apply_lock is released
\* before its on_disk is queued on the ondisk finisher.
C20_DequeueBeforeOndisk ==
  \A n \in OpNums :
    n \in Elems(ondisk_q) =>
      /\ ~InQueue(n)
      /\ \A w \in Workers : wop[w] = n => apply_lock[wosr[w]] # w

\* C20 as the code has it: on_disk is queued by _do_op once
\* submit_transaction has returned, while the op is still the head of its
\* sequencer's queue and the worker holds apply_lock; the dequeue and the
\* unlock follow in _finish_op, and on_readable is queued after them.
C20_OndiskStep ==
  ondisk_q' # ondisk_q =>
    \E w \in Workers :
      /\ ondisk_q' = Append(ondisk_q, wop[w])
      /\ committed[wop[w]] = 1
      /\ q[wosr[w]] # <<>>
      /\ Head(q[wosr[w]]) = wop[w]
      /\ apply_lock[wosr[w]] = w

C20_ReadableAfter ==
  \A n \in OpNums :
    n \in Elems(readable_q) => (~InQueue(n) /\ n \in Elems(ondisk_q))

C20_OndiskBeforeDequeue == [](C20_ReadableAfter) /\ [][C20_OndiskStep]_vars

\* on_disk of op 1 is queued, op 1 is still in the queue of its sequencer
\* and the worker still holds apply_lock
C20_Witness ==
  /\ ondisk_q = <<1>>
  /\ InQueue(1)
  /\ wpc["w1"] = "finish"
  /\ apply_lock[wosr["w1"]] = "w1"
  /\ readable_q = <<>>

(***************************************************************************)
(* Properties of the store.                                                *)
(***************************************************************************)
\* stripe numbers the properties look at
MaxStripeNo == 5

Exists(kv, oid) == kv[oid] # NoObj
Header(kv, oid) == lookup_strip_header(kv, oid).h

C3_Counts ==
  /\ spc = "idle" => nbt = nsubmit
  /\ spc = "apply" => nbt = nsubmit + 1
  /\ mode = "first" => nbt = seq
C3_OneSubmit ==
  /\ db' # db => spc = "apply" /\ spc' = "idle" /\ nsubmit' = nsubmit + 1
  /\ nsubmit' # nsubmit => spc = "apply" /\ spc' = "idle"
  /\ nbt' # nbt => spc = "idle" /\ spc' = "apply"
C3_AtomicCommit == [](C3_Counts) /\ [][C3_OneSubmit]_vars

\* C3 witness: a list of two transactions with an op in each is committed
C3_Witness ==
  /\ spc = "idle"
  /\ nsubmit = 1
  /\ trans_num = 1
  /\ nops = 2
  /\ Exists(db, "a")
  /\ Header(db, "a").max_size = 4

\* C4: applying a transaction list a second time with the same op_seq
\* leaves the key/value state as the first application left it.
C4_ReplayIdempotent ==
  (mode = "replay" /\ spc = "idle") => db = first_db

\* C5: after a committed BufferTransaction of WRITE, ZERO and TRUNCATE ops,
\* a stripe has a key exactly when its bit is set, with a value of
\* strip_size bytes.
C5_BitsMatchKeys ==
  spc = "idle" =>
    \A o \in Oids :
      (kind[o] \in {"W", "WZT"} /\ Exists(db, o)) =>
        \A n \in 0..MaxStripeNo :
          LET h == Header(db, o)
              keys == db[o].keys
          IN IF InBits(h.bits, n) /\ Bit(h.bits, n) = 1
             THEN /\ StripKey(n) \in DOMAIN keys
                  /\ Len(keys[StripKey(n)]) = h.strip_size
             ELSE StripKey(n) \notin DOMAIN keys

\* C9: read(offset, len) with offset <= max_size returns
\* n = min(len, max_size - offset) bytes (all of them for len = 0), the
\* bytes [offset, offset + n) of the object.
ReadLen(max_size, offset, len) ==
  IF len = 0 \/ offset + len > max_size THEN max_size - offset ELSE len
C9_ReadRange ==
  spc = "idle" =>
    \A o \in Oids :
      Exists(db, o) =>
        \A offset \in 0..Header(db, o).max_size :
          \A len \in 0..(MaxOff + MaxLen) :
            LET n == ReadLen(Header(db, o).max_size, offset, len)
            IN read(db, o, offset, len) =
                 [r |-> n, bl |-> SubSeq(Content(db, o), offset + 1, offset + n),
                  abort |-> FALSE]

HeadersOf(o) ==
  (IF bt # NoBt /\ o \in DOMAIN bt.strip_headers
   THEN {bt.strip_headers[o]} ELSE {})
  \cup (IF Exists(db, o) THEN {Header(db, o)} ELSE {})

CeilDiv(a, b) == (a + b - 1) \div b

\* C13: after any _write or _truncate on a header,
\* bits.length == ceil(max_size / strip_size) + 1, also where max_size is
\* not a multiple of strip_size (stated for the headers whose max_size the
\* ops have made positive).
C13_BitsLengthCeil ==
  \A o \in Oids :
    kind[o] \in {"W", "WZT"} =>
      \A h \in HeadersOf(o) :
        h.max_size > 0 =>
          Len(h.bits) = CeilDiv(h.max_size, h.strip_size) + 1

\* C13 as the code has it: a _write that raises max_size and a _truncate
\* that changes it leave bits.length == floor(max_size / strip_size) + 1;
\* bits is empty only while max_size has never left 0.
C13_BitsLength ==
  \A o \in Oids :
    \A h \in HeadersOf(o) :
      \/ Len(h.bits) = 0 /\ h.max_size = 0
      \/ Len(h.bits) = h.max_size \div h.strip_size + 1

\* an object written and truncated to a size that is not a multiple of
\* strip_size is committed
C13_Witness ==
  /\ spc = "idle"
  /\ kind["a"] = "WZT"
  /\ Exists(db, "a")
  /\ Header(db, "a").max_size = 3
  /\ Len(Header(db, "a").bits) = 2
  /\ ref["a"] = <<1, 1, 0>>

\* the sum of the lengths of an offset-to-length map
RECURSIVE SumMap(_)
SumMap(m) ==
  IF DOMAIN m = {} THEN 0
  ELSE LET k == CHOOSE x \in DOMAIN m : TRUE
       IN m[k] + SumMap([x \in DOMAIN m \ {k} |-> m[x]])

\* the byte ranges [start, start + len) of the object that stripes of
\* strip_size bytes cut the range [offset, offset + len) into
PlannedRanges(offset, len, strip_size) ==
  {[start |-> Max(offset, n * strip_size),
    len |-> Min(offset + len, (n + 1) * strip_size)
              - Max(offset, n * strip_size)] :
     n \in {k \in 0..((offset + len) \div strip_size) :
              /\ k * strip_size < offset + len
              /\ (k + 1) * strip_size > offset}}

\* C17: fiemap(cid, oid, offset, len) on an existing object returns an
\* offset-to-length map that covers the request range: its keys are byte
\* offsets within the object, its lengths sum to len, and no two planned
\* extents fall on the same key.
C17_FiemapCovers ==
  spc = "idle" =>
    \A o \in Oids :
      Exists(db, o) =>
        \A offset \in 0..MaxOff : \A len \in 1..(MaxLen + 1) :
          LET f == fiemap(db, o, offset, len)
              ranges == PlannedRanges(offset, len, Header(db, o).strip_size)
          IN /\ f.r = 0
             /\ SumMap(f.m) = len
             /\ DOMAIN f.m = {x.start : x \in ranges}
             /\ \A x \in ranges : f.m[x.start] = x.len

\* the ops that remove something
RemoveLikeOps ==
  {OP_REMOVE, "OP_RMATTR", OP_RMATTRS, OP_RMCOLL, "OP_COLL_REMOVE",
   OP_OMAP_CLEAR, "OP_OMAP_RMKEYS", "OP_OMAP_RMKEYRANGE"}
CloneOps == {OP_CLONE, OP_CLONERANGE, OP_CLONERANGE2}

\* C16: in the transaction decoder a result r < 0 aborts the process unless
\* r is ENODATA or r is ENOENT returned by a remove-like op; ENOENT from a
\* non-remove op such as SETATTR, TRUNCATE or OMAP_SETKEYS, ENOENT from the
\* clone ops and ENOSPC from any op abort.
C16_AbortUnlessRemoveLike ==
  lastop # NoOp =>
    (spc = "crashed" <=>
       /\ lastr < 0
       /\ lastr # -ENODATA
       /\ ~(lastr = -ENOENT /\ lastop.op \in RemoveLikeOps))

\* C16 as the code has it: a result r < 0 aborts the process unless r is
\* ENODATA or r is ENOENT returned by an op other than CLONE, CLONERANGE and
\* CLONERANGE2; ENOENT from the clone ops and ENOSPC from any op abort.
C16_AbortUnlessTolerated ==
  lastop # NoOp =>
    (spc = "crashed" <=>
       /\ lastr < 0
       /\ lastr # -ENODATA
       /\ ~(lastr = -ENOENT /\ lastop.op \notin CloneOps))

\* TRUNCATE has returned -ENOENT and the decoder goes on with the next op
C16_Witness ==
  /\ lastop = [op |-> OP_TRUNCATE]
  /\ lastr = -ENOENT
  /\ spc = "apply"
  /\ nops = 1

SetOps == {OP_SETATTR, OP_OMAP_SETKEYS, OP_OMAP_SETHEADER}

\* C12: on an existing object SETATTR, OMAP_SETKEYS and OMAP_SETHEADER
\* succeed, and once the op has committed getattr(k) returns v,
\* omap_get_values({k}) returns {k: v} and omap_get_header returns h.
C12_RoundTrip ==
  /\ (spc = "idle" /\ lastr = 0) =>
       /\ lastop.op = OP_SETATTR =>
            getattr(db, lastop.oid, lastop.name) =
              [r |-> 0, bl |-> lastop.bl]
       /\ lastop.op = OP_OMAP_SETKEYS =>
            omap_get_values(db, lastop.oid, DOMAIN lastop.aset) =
              [r |-> 0, out |-> lastop.aset]
       /\ lastop.op = OP_OMAP_SETHEADER =>
            omap_get_header(db, lastop.oid) =
              [r |-> 0, bl |-> lastop.bl, abort |-> FALSE]
  /\ (spc = "apply" /\ nops = 1 /\ lastop.op \in SetOps) =>
       (Exists(db, lastop.oid) => lastr = 0)

\* an attribute set by an earlier op and two omap keys set by the last op
\* are read back
C12_Witness ==
  /\ spc = "idle"
  /\ seq = 2
  /\ lastop.op = OP_OMAP_SETKEYS
  /\ lastr = 0
  /\ getattr(db, "a", "k1") = [r |-> 0, bl |-> <<1>>]
  /\ omap_get_values(db, "a", AttrNames).out = ("k1" :> <<1>> @@ "k2" :> <<>>)

(***************************************************************************)
(* Collections: _destroy_collection and _create_collection.                *)
(***************************************************************************)
\* the running BufferTransaction is the one the last decoded op left
JustDecoded(op) ==
  /\ lastop.op = op
  /\ spc \in {"apply", "crashed"}
  /\ nops > 0

\* some object of collection c remains that is not marked deleted in b: a
\* cached entry that is not deleted, or an object of the committed state
\* that has no cache entry
Remains(kv, b, c) ==
  \E id \in CollObjs :
    /\ CollOf(id) = c
    /\ \/ Cached(b, id) /\ ~b.strip_headers[id].deleted
       \/ kv[id] # NoObj /\ ~Cached(b, id)

CollDeleted(b, c) ==
  /\ Cached(b, make_ghobject_for_coll(c))
  /\ b.strip_headers[make_ghobject_for_coll(c)].deleted

\* C14: _destroy_collection(c) on a collection that exists fails with
\* -ENOTEMPTY if and only if some object of c remains that is not marked
\* deleted in the BufferTransaction; in every other case, deleted entries of
\* objects that never reached the key/value state included, it marks the
\* header of the collection deleted and returns 0.
C14_NotEmptyIffRemains ==
  JustDecoded(OP_RMCOLL) /\ lastr # -ENOENT =>
    /\ lastr = -ENOTEMPTY <=> Remains(db, bt, lastop.cid)
    /\ ~Remains(db, bt, lastop.cid) =>
         lastr = 0 /\ CollDeleted(bt, lastop.cid)

\* C15: _create_collection(c) returns -EEXIST when a header of c is present
\* (committed and not removed in this BufferTransaction, or created earlier
\* in it); otherwise it returns 0 with the header of the collection created,
\* and the collection exists once the BufferTransaction is committed.
C15_CreateOrExists ==
  /\ JustDecoded(OP_MKCOLL) =>
       /\ \/ lastr = -EEXIST
          \/ /\ lastr = 0
             /\ Cached(bt, make_ghobject_for_coll(lastop.cid))
             /\ ~CollDeleted(bt, lastop.cid)
       /\ db[make_ghobject_for_coll(lastop.cid)] # NoObj
            /\ lastr # -ENOENT => lastr = -EEXIST
  /\ lastop.op = OP_MKCOLL /\ spc = "idle" /\ lastr = 0 =>
       _check_coll(db, lastop.cid) = 0

(***************************************************************************)
(* CLONE.                                                                  *)
(***************************************************************************)
\* the process died in a call through a null handle
NullDerefCrash ==
  spc = "crashed" /\ bt # NoBt /\ DerefedNull(bt.t)

C21_ReadableInOrder ==
  \A i, j \in DOMAIN readable_q :
    i < j /\ op_osr[readable_q[i]] = op_osr[readable_q[j]]
      => readable_q[i] < readable_q[j]

\* C22: the threads that are inside queue_transactions with the same
\* Sequencer hold the same OpSequencer: one OpSequencer is created for a
\* Sequencer, whatever the number of threads that find it without one
C22_OneOpSequencer ==
  \A c1, c2 \in Callers :
    cposr[c1] = cposr[c2] /\ cosr[c1] # 0 /\ cosr[c2] # 0
      => cosr[c1] = cosr[c2]

(***************************************************************************)
(* The buffers of a cached header: set_buffer_keys, get_buffer_key and     *)
(* remove_buffer_keys called on the header of one object inside            *)
(* BufferTransactions.                                                     *)
(***************************************************************************)
\* calls made in one BufferTransaction
MaxBufCalls == 4
BufOid == "a"
BufKeys == {StripKey(0), StripKey(1)}
BufValues == {<<1>>, <<1, 1>>}

\* snap in this specification: the values staged in the running
\* BufferTransaction and not removed since, and the value the last
\* get_buffer_key returned
NoStaged == [staged |-> EmptyMap, got |-> <<>>]

\* _do_transactions up to the first lookup_cached_header of the object
BufBegin ==
  /\ spc = "idle"
  /\ seq < MaxStoreOps
  /\ seq' = seq + 1
  /\ bt' = lookup_cached_header(
             db, BufferTransaction(db, [seq |-> seq + 1, trans |-> 0,
                                        op |-> 0]),
             BufOid, TRUE).bt
  /\ nbt' = nbt + 1
  /\ spc' = "apply"
  /\ nops' = 0
  /\ snap' = NoStaged
  /\ lastop' = NoOp
  /\ lastr' = 0
  /\ UNCHANGED <<db, trans_num, nsubmit, ref, kind, trunc, keep, tls, mode,
                 first_db>>
  /\ UNCHANGED pipe_vars

\* a call that leaves header h and transaction t
BufCalled(h, t) ==
  /\ spc = "apply"
  /\ nops < MaxBufCalls
  /\ nops' = nops + 1
  /\ bt' = [PutHeader(bt, BufOid, h) EXCEPT !.t = t]
  /\ UNCHANGED <<db, seq, trans_num, nbt, nsubmit, ref, kind, trunc, keep,
                 tls, mode, first_db>>
  /\ UNCHANGED pipe_vars

BufSetDone(k, v, s) ==
  /\ BufCalled(s.h, s.t)
  /\ spc' = spc
  /\ lastop' = [op |-> "set_buffer_keys", key |-> k]
  /\ lastr' = 0
  /\ snap' = [snap EXCEPT !.staged = (k :> v) @@ @]

BufSet ==
  \E k \in BufKeys, v \in BufValues :
    /\ spc = "apply"
    /\ BufSetDone(k, v, set_buffer_keys(bt, bt.strip_headers[BufOid], k :> v))

BufRemoveDone(k, s) ==
  /\ BufCalled(s.h, s.t)
  /\ spc' = spc
  /\ lastop' = [op |-> "remove_buffer_keys", key |-> k]
  /\ lastr' = 0
  /\ snap' = [snap EXCEPT
                !.staged = [x \in (DOMAIN @) \ {k} |-> @[x]]]

BufRemove ==
  \E k \in BufKeys :
    /\ spc = "apply"
    /\ BufRemoveDone(k, remove_buffer_keys(bt, bt.strip_headers[BufOid], {k}))

\* g is what get_buffer_key returned; its assert ends the process
BufGetDone(k, g) ==
  /\ BufCalled(g.h, bt.t)
  /\ spc' = IF g.abort THEN "crashed" ELSE "apply"
  /\ lastop' = [op |-> "get_buffer_key", key |-> k]
  /\ lastr' = g.r
  /\ snap' = [snap EXCEPT !.got = g.bl]

BufGet ==
  \E k \in BufKeys :
    /\ spc = "apply"
    /\ BufGetDone(k, get_buffer_key(db, bt.strip_headers[BufOid], k))

NextBuf ==
  \/ BufBegin
  \/ BufSet
  \/ BufRemove
  \/ BufGet
  \/ SubmitOp

SpecBuf == InitStore /\ [][NextBuf]_vars

\* C23: a get_buffer_key of a key that set_buffer_keys staged in the running
\* BufferTransaction, and that was not removed since, returns 0 and the
\* value staged last, however many get_buffer_key calls came in between
C23_GetReturnsStaged ==
  spc = "apply" /\ lastop.op = "get_buffer_key"
    /\ lastop.key \in DOMAIN snap.staged
    => lastr = 0 /\ snap.got = snap.staged[lastop.key]

(***************************************************************************)
(* CLONERANGE2 next to WRITE and TRUNCATE of the source.                   *)
(***************************************************************************)
RangeSrc == "a"
RangeDst == "b"
\* largest offset and length of a CLONERANGE2
MaxRange == 2

RangeWriteOps == {o \in WriteOps : o.oid = RangeSrc /\ o.len > 0}
RangeTruncateOps == {o \in TruncateOps : o.oid = RangeSrc}
CloneRangeOps ==
  {[op |-> OP_CLONERANGE2, oid |-> RangeSrc, noid |-> RangeDst,
    srcoff |-> srcoff, len |-> len, dstoff |-> dstoff] :
     srcoff \in 0..MaxRange, len \in 1..MaxRange, dstoff \in 0..MaxRange}

\* what read(src, srcoff, len) returned had the BufferTransaction b been
\* committed as it is
ReadStaged(b, o) == read(submit_transaction(b), o.oid, o.srcoff, o.len)

\* snap after op o: a CLONERANGE2 records the bytes its source holds at
\* that point of the BufferTransaction, when a read yields all len of them
RangeSnap(sn, o, rd) ==
  IF o.op = OP_CLONERANGE2
  THEN IF rd.r = o.len /\ ~rd.abort
       THEN [dst |-> o.noid, dstoff |-> o.dstoff, len |-> o.len,
             bytes |-> rd.bl]
       ELSE NoSnap
  ELSE NoSnap

RangeOpApplied(o, d) ==
  /\ spc = "apply"
  /\ mode = "first"
  /\ nops < MaxOps
  /\ ApplyDispatched(o, d)
  /\ nops' = nops + 1
  /\ snap' = RangeSnap(snap, o,
                       IF o.op = OP_CLONERANGE2 THEN ReadStaged(bt, o)
                       ELSE [r |-> 0, bl |-> <<>>, abort |-> FALSE])
  /\ UNCHANGED <<db, seq, trans_num, nbt, nsubmit, ref, kind, trunc, keep,
                 tls, mode, first_db>>
  /\ UNCHANGED pipe_vars

RangeOp(o, oob, ubno) == RangeOpApplied(o, Dispatch(db, bt, o, oob, ubno))

DoCloneRange == \E o \in CloneRangeOps : RangeOp(o, {}, 0)
RangeWrite == \E o \in RangeWriteOps : RangeOp(o, {}, 0)
RangeTruncate ==
  /\ spc = "apply"
  /\ \E o \in RangeTruncateOps :
       \E oob \in OobChoices(o) : \E ubno \in UbNoChoices(o) :
         RangeOp(o, oob, ubno)

NextRange ==
  \/ BeginOp
  \/ DoCloneRange
  \/ RangeWrite
  \/ RangeTruncate
  \/ SubmitOp

SpecRange == InitStore /\ [][NextRange]_vars

\* the bytes [off, off + len) of the committed object
BytesOf(kv, oid, off, len) ==
  IF kv[oid] = NoObj THEN <<>>
  ELSE SubSeq(Content(kv, oid), off + 1, off + len)

CloneJustDone ==
  /\ JustDecoded(OP_CLONE)
  /\ spc = "apply"
  /\ lastr = 0
  /\ lastop.oid # lastop.noid
  /\ snap # NoSnap
  /\ snap.src = lastop.oid /\ snap.dst = lastop.noid
  /\ snap.clean

\* header h has the strip_size, max_size and bits of header h0
SameShape(h, h0) ==
  /\ h.strip_size = h0.strip_size
  /\ h.max_size = h0.max_size
  /\ h.bits = h0.bits

\* C25: clone_buffer leaves the cache entry of the source with the oid,
\* strip_size, max_size and bits it had (those of the committed header, the
\* source not having been cached before), and the entry of the target
\* carries the same strip_size, max_size and bits
C25_CloneKeepsSource ==
  CloneJustDone =>
    /\ Cached(bt, lastop.oid) /\ Cached(bt, lastop.noid)
    /\ bt.strip_headers[lastop.oid].oid = lastop.oid
    /\ SameShape(bt.strip_headers[lastop.oid],
                 lookup_strip_header(db, lastop.oid).h)
    /\ SameShape(bt.strip_headers[lastop.noid],
                 lookup_strip_header(db, lastop.oid).h)

(***************************************************************************)
(* COLL_MOVE_RENAME next to WRITE and TRUNCATE of the objects of the       *)
(* collection.                                                             *)
(***************************************************************************)
RenameOps == {[op |-> OP_COLL_MOVE_RENAME, oid |-> src, noid |-> dst] :
                src \in CollObjs, dst \in CollObjs}

NoChanged == [hdr |-> <<>>]

\* the header of o.oid an op finds: the cached one, else the committed one
HeaderBefore(kv, b, oid) ==
  IF Cached(b, oid) THEN b.strip_headers[oid]
  ELSE lookup_strip_header(kv, oid).h

\* the keys of strip_headers whose header had max_size or bits changed in
\* this BufferTransaction, after op o returned d: a renamed header goes on
\* under its new key
ChangedKeys(c0, o, d, kv, b) ==
  IF o.op = OP_COLL_MOVE_RENAME
  THEN IF d.r = 0 /\ o.oid \in c0 THEN (c0 \ {o.oid}) \cup {o.noid} ELSE c0
  ELSE IF d.r >= 0 /\ Cached(d.bt, o.oid)
          /\ ~SameShape(d.bt.strip_headers[o.oid], HeaderBefore(kv, b, o.oid))
       THEN c0 \cup {o.oid}
       ELSE c0

\* snap after op o: the changed headers that are cached and not deleted
ChangedSnap(c1, b1) ==
  [hdr |-> [k \in {x \in c1 : Cached(b1, x) /\ ~b1.strip_headers[x].deleted}
              |-> b1.strip_headers[k]]]

RenameOpApplied(o, d) ==
  /\ spc = "apply"
  /\ mode = "first"
  /\ nops < MaxOps
  /\ ApplyDispatched(o, d)
  /\ nops' = nops + 1
  /\ snap' = ChangedSnap(ChangedKeys(IF nops = 0 THEN {} ELSE DOMAIN snap.hdr,
                                     o, d, db, bt),
                         d.bt)
  /\ UNCHANGED <<db, seq, trans_num, nbt, nsubmit, ref, kind, trunc, keep,
                 tls, mode, first_db>>
  /\ UNCHANGED pipe_vars

RenameOp(o, oob, ubno) == RenameOpApplied(o, Dispatch(db, bt, o, oob, ubno))

DoRename == \E o \in RenameOps : RenameOp(o, {}, 0)
RenameWrite == \E o \in CloneWriteOps : RenameOp(o, {}, 0)
RenameTruncate ==
  /\ spc = "apply"
  /\ \E o \in CloneTruncateOps :
       \E oob \in OobChoices(o) : \E ubno \in UbNoChoices(o) :
         RenameOp(o, oob, ubno)

NextRename ==
  \/ BeginOp
  \/ DoRename
  \/ RenameWrite
  \/ RenameTruncate
  \/ SubmitOp

SpecRename == InitStore /\ [][NextRename]_vars

\* the spos the BufferTransaction had when the op decoded last ran
SposOfLastOp == [bt.spos EXCEPT !.op = @ - 1]

\* C26: after a COLL_MOVE_RENAME that returned 0, strip_headers holds no
\* entry under the old key and holds an entry under the new key whose oid
\* is the new one and whose spos is the spos of the BufferTransaction
C26_RenameMovesEntry ==
  JustDecoded(OP_COLL_MOVE_RENAME) /\ spc = "apply" /\ lastr = 0 =>
    /\ ~Cached(bt, lastop.oid)
    /\ Cached(bt, lastop.noid)
    /\ bt.strip_headers[lastop.noid].oid = lastop.noid
    /\ bt.strip_headers[lastop.noid].spos = SposOfLastOp

\* C27: once the BufferTransaction is committed, a lookup of every header
\* that was cached, not deleted, and had max_size or bits changed in it,
\* renamed or not, returns the max_size and bits the header had at commit
C27_ChangedHeadersPersisted ==
  spc = "idle" /\ nsubmit > 0 /\ snap # NoSnap =>
    \A k \in DOMAIN snap.hdr :
      /\ lookup_strip_header(db, snap.hdr[k].oid).r = 0
      /\ SameShape(lookup_strip_header(db, snap.hdr[k].oid).h, snap.hdr[k])

(***************************************************************************)
(* REMOVE of an object next to WRITE and TOUCH of it in one                *)
(* BufferTransaction.                                                      *)
(***************************************************************************)
\* ops decoded into one BufferTransaction
MaxRemoveOps == 3

\* nothing removed yet in the BufferTransaction
NoRemoved == [removed |-> FALSE, clears |-> 0, redo |-> NoOp, r |-> 0]

\* the cache entry of oid is marked deleted
Deleted(b, oid) == Cached(b, oid) /\ b.strip_headers[oid].deleted

\* snap after op o returned d.  removed: a REMOVE has returned 0; clears:
\* the calls of clear that clear_buffer has made, each of which sets the
\* deleted mark of the entry; redo: the WRITE or TOUCH decoded after the
\* REMOVE, and r what it returned
RemoveSnap(sn, o, d, b) ==
  IF o.op = OP_REMOVE
  THEN [removed |-> sn.removed \/ d.r = 0,
        clears |-> sn.clears
                   + (IF Deleted(d.bt, o.oid) /\ ~Deleted(b, o.oid)
                      THEN 1 ELSE 0),
        redo |-> NoOp, r |-> 0]
  ELSE IF sn.removed THEN [sn EXCEPT !.redo = o, !.r = d.r]
  ELSE sn

RemoveOpApplied(o, d) ==
  /\ spc = "apply"
  /\ mode = "first"
  /\ nops < MaxRemoveOps
  /\ ApplyDispatched(o, d)
  /\ nops' = nops + 1
  /\ snap' = RemoveSnap(IF nops = 0 THEN NoRemoved ELSE snap, o, d, bt)
  /\ UNCHANGED <<db, seq, trans_num, nbt, nsubmit, ref, kind, trunc, keep,
                 tls, mode, first_db>>
  /\ UNCHANGED pipe_vars

RemoveOp(o) == RemoveOpApplied(o, Dispatch(db, bt, o, {}, 0))

RemoveObject == \E o \in RemoveOps : RemoveOp(o)
RemoveWrite == \E o \in RangeWriteOps : RemoveOp(o)
RemoveTouch == \E o \in TouchOps : RemoveOp(o)

NextRemove ==
  \/ BeginOp
  \/ RemoveObject
  \/ RemoveWrite
  \/ RemoveTouch
  \/ SubmitOp

SpecRemove == InitStore /\ [][NextRemove]_vars

\* the BufferTransaction of the last _do_transactions removed the object
\* and decoded nothing on it afterwards
RemovedLast == snap # NoSnap /\ nops > 0 /\ snap.removed /\ snap.redo = NoOp

\* C28: within the BufferTransaction a REMOVE of an existing object issues
\* clear once, and lookups of the object after it return -ENOENT; once the
\* BufferTransaction is committed the object does not exist: no header was
\* saved for it, and a read returns -ENOENT
C28_RemoveDeletes ==
  /\ RemovedLast /\ spc = "apply" =>
       /\ snap.clears = 1
       /\ lookup_cached_header(db, bt, lastop.oid, FALSE).r = -ENOENT
       /\ bt.t[lastop.oid] = NoObj
  /\ RemovedLast /\ spc = "idle" =>
       /\ snap.clears = 1
       /\ db[lastop.oid] = NoObj
       /\ lookup_strip_header(db, lastop.oid).r = -ENOENT
       /\ read(db, lastop.oid, 0, 1).r = -ENOENT

\* a BufferTransaction that removed the committed object has been committed
C28_Witness ==
  /\ RemovedLast /\ spc = "idle" /\ seq = MaxStoreOps /\ nops = 1
  /\ db[lastop.oid] = NoObj

\* C29: a WRITE or TOUCH decoded after the REMOVE of the object in the same
\* BufferTransaction succeeds, and once the BufferTransaction is committed
\* the object exists and a read returns the bytes written
C29_RecreateAfterRemove ==
  /\ snap # NoSnap /\ nops > 0 /\ snap.removed /\ snap.redo # NoOp
     /\ spc \in {"apply", "crashed"} =>
       spc = "apply" /\ snap.r >= 0
  /\ snap # NoSnap /\ nops > 0 /\ snap.removed /\ snap.redo # NoOp
     /\ spc = "idle" =>
       /\ lookup_strip_header(db, snap.redo.oid).r = 0
       /\ snap.redo.op = OP_WRITE =>
            read(db, snap.redo.oid, snap.redo.off, snap.redo.len).bl
              = snap.redo.bl

(***************************************************************************)
(* OMAP_CLEAR and RMATTRS next to the ops that set attributes and omap.    *)
(***************************************************************************)
RmattrsOps == {[op |-> OP_RMATTRS, oid |-> oid] : oid \in Oids}
OmapClearOps == {[op |-> OP_OMAP_CLEAR, oid |-> oid] : oid \in Oids}

DoRmattrs == \E o \in RmattrsOps : ApplyOp(o, {}, 0)
DoOmapClear == \E o \in OmapClearOps : ApplyOp(o, {}, 0)

NextClear ==
  \/ BeginOp
  \/ ApplyTouch
  \/ DoSetattr
  \/ DoOmapSetkeys
  \/ DoOmapSetheader
  \/ DoRmattrs
  \/ DoOmapClear
  \/ SubmitOp

SpecClear == InitStore /\ [][NextClear]_vars

\* the BufferTransaction committed last ended with op, which returned 0
CommittedAfter(op) ==
  spc = "idle" /\ nops > 0 /\ lastop.op = op /\ lastr = 0

\* C30: once a BufferTransaction whose last op is an OMAP_CLEAR that
\* returned 0 is committed, the object has no omap key and no omap header,
\* those staged earlier in the BufferTransaction included; once one whose
\* last op is a RMATTRS that returned 0 is committed, it has no xattr
C30_ClearRemovesAll ==
  /\ CommittedAfter(OP_OMAP_CLEAR) =>
       /\ get_keys(db, lastop.oid, OBJECT_OMAP).keys = {}
       /\ get_keys(db, lastop.oid, OBJECT_OMAP_HEADER).keys = {}
       /\ omap_get_values(db, lastop.oid, AttrNames).out = EmptyMap
  /\ CommittedAfter(OP_RMATTRS) =>
       /\ get_keys(db, lastop.oid, OBJECT_XATTR).keys = {}
       /\ \A n \in AttrNames : getattr(db, lastop.oid, n).r = -ENODATA

(***************************************************************************)
(* MKCOLL followed by TOUCH and WRITE of the objects of the collection.    *)
(***************************************************************************)
\* ops decoded into one BufferTransaction
MaxMkcollOps == 3

MkcollWriteOps == {o \in CloneWriteOps : o.off = 0 /\ o.len = 1}

MkcollCreate == \E o \in MkcollOps : ApplyOpWithin(o, {}, 0, MaxMkcollOps)
MkcollDestroy == \E o \in RmcollOps : ApplyOpWithin(o, {}, 0, MaxMkcollOps)
MkcollTouch == \E o \in CollTouchOps : ApplyOpWithin(o, {}, 0, MaxMkcollOps)
MkcollWrite == \E o \in MkcollWriteOps : ApplyOpWithin(o, {}, 0, MaxMkcollOps)

NextMkcoll ==
  \/ BeginOp
  \/ MkcollCreate
  \/ MkcollDestroy
  \/ MkcollTouch
  \/ MkcollWrite
  \/ SubmitOp

SpecMkcoll == InitStore /\ [][NextMkcoll]_vars

\* collection c does not exist in the committed state and a MKCOLL of the
\* running BufferTransaction has created it: its header is cached and not
\* deleted
CreatedInBt(c) ==
  /\ spc \in {"apply", "crashed"}
  /\ _check_coll(db, c) < 0
  /\ Cached(bt, make_ghobject_for_coll(c))
  /\ ~CollDeleted(bt, c)

\* the op decoded last is a TOUCH or a WRITE of an object of a collection
\* that a MKCOLL of the same BufferTransaction has created
TouchedCreated ==
  /\ nops > 0
  /\ lastop.op \in {OP_TOUCH, OP_WRITE}
  /\ CreatedInBt(CollOf(lastop.oid))

\* C31: a TOUCH or WRITE of an object of a collection that a MKCOLL has
\* created earlier in the same BufferTransaction passes the collection
\* check and returns 0 with the object cached, and once the
\* BufferTransaction is committed that way the collection and the object
\* exist and the collection lists the object
C31_CreatedCollVisible ==
  /\ [](TouchedCreated =>
          /\ spc = "apply"
          /\ lastr = 0
          /\ check_coll(db, bt, CollOf(lastop.oid)) = 0
          /\ Cached(bt, lastop.oid) /\ ~Deleted(bt, lastop.oid))
  /\ [][TouchedCreated /\ spc' = "idle" =>
          /\ _check_coll(db', CollOf(lastop.oid)) = 0
          /\ lookup_strip_header(db', lastop.oid).r = 0
          /\ \E i \in 1 .. Len(list_objects(db', CollOf(lastop.oid), 2)) :
               list_objects(db', CollOf(lastop.oid), 2)[i] = lastop.oid]_vars

\* a WRITE of an object of the collection that the MKCOLL before it has
\* created has returned 0
C31_Witness ==
  /\ TouchedCreated
  /\ lastop.op = OP_WRITE
  /\ lastr = 0
  /\ spc = "apply"

(***************************************************************************)
(* Shrinking TRUNCATE next to WRITE of the object.                         *)
(***************************************************************************)
\* the stripe keys staged for object oid in the BufferTransaction b
StagedStripes(b, oid) ==
  IF b.t[oid] = NoObj THEN EmptyMap
  ELSE [k \in {x \in DOMAIN b.t[oid].keys : x[1] = OBJECT_STRIP_PREFIX}
          |-> b.t[oid].keys[k]]

\* the value of stripe n that a read through the BufferTransaction finds:
\* the buffered one, else the committed one
StripeBefore(kv, h, n) ==
  IF StripKey(n) \in DOMAIN h.buffers THEN h.buffers[StripKey(n)]
  ELSE IF kv[h.oid] # NoObj /\ StripKey(n) \in DOMAIN kv[h.oid].keys
  THEN kv[h.oid].keys[StripKey(n)]
  ELSE <<>>

\* snap after op o: for a TRUNCATE that found a header larger than size,
\* the header, the staged stripes and the value of the boundary stripe
\* before it, and what it left; NoSnap after every other op
TruncSnap(o, lk, d, kv, oob, ubno) ==
  IF o.op = OP_TRUNCATE /\ lk.r = 0
  THEN IF lk.bt.strip_headers[o.oid].max_size > o.off
       THEN [h |-> lk.bt.strip_headers[o.oid],
             size |-> o.off,
             n |-> o.off \div lk.bt.strip_headers[o.oid].strip_size,
             keep |-> o.off % lk.bt.strip_headers[o.oid].strip_size,
             staged |-> StagedStripes(lk.bt, o.oid),
             old |-> StripeBefore(kv, lk.bt.strip_headers[o.oid],
                                  o.off \div
                                    lk.bt.strip_headers[o.oid].strip_size),
             oob |-> oob, ubno |-> ubno,
             r |-> d.r, abort |-> d.abort]
       ELSE NoSnap
  ELSE NoSnap

TruncOpApplied(o, d, oob, ubno) ==
  /\ spc = "apply"
  /\ mode = "first"
  /\ nops < MaxOps
  /\ ApplyDispatched(o, d)
  /\ nops' = nops + 1
  /\ snap' = TruncSnap(o, lookup_cached_header(db, bt, o.oid, FALSE), d, db,
                       oob, ubno)
  /\ UNCHANGED <<db, seq, trans_num, nbt, nsubmit, ref, kind, trunc, keep,
                 tls, mode, first_db>>
  /\ UNCHANGED pipe_vars

TruncOp(o, oob, ubno) ==
  TruncOpApplied(o, Dispatch(db, bt, o, oob, ubno), oob, ubno)

TruncWrite == \E o \in RangeWriteOps : TruncOp(o, {}, 0)
TruncTruncate ==
  /\ spc = "apply"
  /\ \E o \in TruncateOps :
       \E oob \in OobChoices(o) : \E ubno \in UbNoChoices(o) :
         TruncOp(o, oob, ubno)

NextTrunc ==
  \/ BeginOp
  \/ TruncWrite
  \/ TruncTruncate
  \/ SubmitOp

SpecTrunc == InitStore /\ [][NextTrunc]_vars

\* the op decoded last is a shrinking TRUNCATE
ShrinkDecoded == JustDecoded(OP_TRUNCATE) /\ snap # NoSnap

\* the shrinking TRUNCATE decoded last cut inside a stripe that is present
ShrinkInsidePresent ==
  /\ ShrinkDecoded
  /\ snap.keep # 0
  /\ Bit(snap.h.bits, snap.n) = 1

\* C32: after a shrinking _truncate(size) whose size is inside a stripe n
\* that is present, the value staged under strip_object_key(n) is the first
\* size mod strip_size bytes of the old stripe followed by zeros up to
\* strip_size, bits[n] is still 1, and no value is staged under the key of
\* another stripe
C32_BoundaryStripeStaged ==
  ShrinkInsidePresent =>
    /\ spc = "apply" /\ lastr = 0
    /\ StripKey(snap.n) \in DOMAIN StagedStripes(bt, lastop.oid)
    /\ StagedStripes(bt, lastop.oid)[StripKey(snap.n)]
         = SubSeq(snap.old, 1, snap.keep)
             \o Zeros(snap.h.strip_size - snap.keep)
    /\ Bit(bt.strip_headers[lastop.oid].bits, snap.n) = 1
    /\ \A k \in DOMAIN StagedStripes(bt, lastop.oid) :
         k # StripKey(snap.n) =>
           /\ k \in DOMAIN snap.staged
           /\ StagedStripes(bt, lastop.oid)[k] = snap.staged[k]

\* C33: a shrinking _truncate(size) plans its extents over exactly
\* [size, old max_size): the stripe number of every planned extent, whose
\* bit it reads or clears, is below the length of bits, and it does not
\* read an extent past the end of the planned list
C33_ShrinkPlanInRange ==
  ShrinkDecoded =>
    /\ _truncate_extents(snap.h, snap.size)
         = file_to_extents(snap.size, snap.h.max_size - snap.size,
                           snap.h.strip_size)
    /\ OobStripes(snap.h, snap.size) = {}
    /\ ~(/\ Len(_truncate_extents(snap.h, snap.size)) = 1
         /\ _truncate_extents(snap.h, snap.size)[1].offset # 0)

\* the shrinking TRUNCATE decoded last cut inside a sparse stripe: its bit
\* is 0 and neither the BufferTransaction nor the committed state holds a
\* value for it
ShrinkInsideSparse ==
  /\ ShrinkDecoded
  /\ snap.keep # 0
  /\ Bit(snap.h.bits, snap.n) = 0
  /\ snap.old = <<>>
  /\ StripKey(snap.n) \notin DOMAIN snap.staged

\* C34: a shrinking _truncate to a size inside a sparse stripe returns 0
\* and the process goes on: assert(out.size() == 1) of get_buffer_key does
\* not fail
C34_SparseShrinkCompletes ==
  ShrinkInsideSparse => spc = "apply" /\ lastr = 0 /\ ~snap.abort

(***************************************************************************)
(* WRITE after WRITE and TRUNCATE of the same object in one                *)
(* BufferTransaction.                                                      *)
(***************************************************************************)
\* ops decoded into one BufferTransaction
MaxWriteOps == 3

WriteAgain == \E o \in RangeWriteOps : ApplyOpWithin(o, {}, 0, MaxWriteOps)
WriteTruncate ==
  /\ spc = "apply"
  /\ \E o \in TruncateOps :
       \E oob \in OobChoices(o) : \E ubno \in UbNoChoices(o) :
         ApplyOpWithin(o, oob, ubno, MaxWriteOps)

NextWrite ==
  \/ BeginOp
  \/ WriteAgain
  \/ WriteTruncate
  \/ SubmitOp

SpecWrite == InitStore /\ [][NextWrite]_vars

\* C35: whatever ops precede it in the BufferTransaction, a _write fails
\* none of its assertions and copies from no buffer past its end (the
\* process goes on), it returns 0, and every stripe value staged for the
\* object has length strip_size
C35_WriteStagesWholeStripes ==
  JustDecoded(OP_WRITE) =>
    /\ spc = "apply"
    /\ lastr = 0
    /\ \A k \in DOMAIN StagedStripes(bt, lastop.oid) :
         Len(StagedStripes(bt, lastop.oid)[k])
           = bt.strip_headers[lastop.oid].strip_size

(***************************************************************************)
(* StripObjectMap::file_to_extents over every offset and length of the     *)
(* integer width, for small stripe sizes.                                  *)
(***************************************************************************)
\* largest strip_size
MaxExtentStrip == 3

ExtentInputs ==
  {[offset |-> offset, len |-> len, strip_size |-> strip_size,
    done |-> FALSE, extents |-> <<>>] :
     offset \in 0 .. 2 ^ UintBits - 1, len \in 0 .. 2 ^ UintBits - 1,
     strip_size \in 1 .. MaxExtentStrip}

InitExtents ==
  /\ InitStoreVars
  /\ keep = FALSE
  /\ InitPipeVars
  /\ lastop = NoOp
  /\ lastr = 0
  /\ snap \in ExtentInputs

\* a caller runs file_to_extents(offset, len, strip_size, extents)
PlanExtents ==
  /\ ~snap.done
  /\ snap' = [snap EXCEPT
                !.done = TRUE,
                !.extents = file_to_extents(snap.offset, snap.len,
                                            snap.strip_size)]
  /\ UNCHANGED <<store_vars, pipe_vars, lastop, lastr>>

NextExtents == PlanExtents

SpecExtents == InitExtents /\ [][NextExtents]_vars

RECURSIVE SumLen(_, _)
\* the sum of the lengths of extents[1..n]
SumLen(extents, n) ==
  IF n = 0 THEN 0 ELSE SumLen(extents, n - 1) + extents[n].len

\* the postcondition of file_to_extents(offset, len, strip_size) for len > 0
ExtentsCover(offset, len, strip_size, extents) ==
  /\ Len(extents) >= 1
  /\ \A i \in 1 .. Len(extents) :
       /\ extents[i].no = offset \div strip_size + i - 1
       /\ extents[i].len > 0
       /\ extents[i].offset + extents[i].len <= strip_size
       /\ i > 1 => extents[i].offset = 0
       /\ i < Len(extents) => extents[i].offset + extents[i].len = strip_size
  /\ extents[1].offset = offset % strip_size
  /\ SumLen(extents, Len(extents)) = len

\* C36: for every offset, every len > 0 and every strip_size > 0
\* file_to_extents emits a non-empty list of extents with consecutive
\* stripe numbers from floor(offset / strip_size) on, each inside one
\* stripe, only the first starting inside its stripe, covering exactly
\* [offset, offset + len); for len = 0 it emits nothing
C36_ExtentsCoverRange ==
  snap # NoSnap /\ snap.done =>
    IF snap.len = 0 THEN snap.extents = <<>>
    ELSE ExtentsCover(snap.offset, snap.len, snap.strip_size, snap.extents)

\* C36 for the ranges that end within the integer width
C36_ExtentsCoverInWidth ==
  snap # NoSnap /\ snap.done /\ snap.offset + snap.len < 2 ^ UintBits =>
    IF snap.len = 0 THEN snap.extents = <<>>
    ELSE ExtentsCover(snap.offset, snap.len, snap.strip_size, snap.extents)

\* C37: while the op with number seq is applied, the SequencerPosition in
\* effect is (seq, k, i) for the i-th op of the k-th transaction of the
\* list: its trans follows trans_num, which goes up by one between
\* transactions, its op restarts at 0 at each new transaction and goes up
\* by one after each op
C37_SposFollowsList ==
  /\ [](spc = "apply" =>
          bt.spos.seq = seq /\ bt.spos.trans = trans_num)
  /\ [][spc = "apply" /\ spc' = "apply" /\ trans_num' = trans_num + 1 =>
          bt'.spos = [seq |-> seq, trans |-> trans_num', op |-> 0]]_vars
  /\ [][spc = "apply" /\ spc' = "apply" /\ nops' = nops + 1 =>
          bt'.spos = [bt.spos EXCEPT !.op = @ + 1]]_vars

(***************************************************************************)
(* Queries on the committed state, next to the ops that create and remove  *)
(* collections, their attributes and their objects.                        *)
(***************************************************************************)
\* the ops one transaction list decodes at most
MaxQueryOps == 3

CollSetattrOps ==
  {[op |-> OP_COLL_SETATTR, cid |-> c, name |-> n, bl |-> v] :
     c \in Colls, n \in AttrNames, v \in AttrValues}
CollRmattrOps ==
  {[op |-> OP_COLL_RMATTR, cid |-> c, name |-> n] :
     c \in Colls, n \in AttrNames}

QueryMkcoll == \E o \in MkcollOps : ApplyOpWithin(o, {}, 0, MaxQueryOps)
QueryRmcoll == \E o \in RmcollOps : ApplyOpWithin(o, {}, 0, MaxQueryOps)
QueryTouch == \E o \in CollTouchOps : ApplyOpWithin(o, {}, 0, MaxQueryOps)
QueryRemove == \E o \in CollRemoveOps : ApplyOpWithin(o, {}, 0, MaxQueryOps)
CollSetattr == \E o \in CollSetattrOps : ApplyOpWithin(o, {}, 0, MaxQueryOps)
CollRmattr == \E o \in CollRmattrOps : ApplyOpWithin(o, {}, 0, MaxQueryOps)

\* a query leaves the store and the running BufferTransaction alone; a failed
\* assertion ends the process
Queried(abort) ==
  /\ spc' = IF abort THEN "crashed" ELSE spc
  /\ UNCHANGED <<db, bt, seq, trans_num, nops, nbt, nsubmit, ref, kind,
                 trunc, keep, tls, mode, first_db, lastop, lastr>>
  /\ UNCHANGED pipe_vars

\* a caller reads an attribute of a collection; snap keeps the call and what
\* it returned
CollectionGetattrReturned(c, name, g) ==
  /\ snap' = [call |-> "collection_getattr", c |-> c, name |-> name,
              r |-> g.r, bl |-> g.bl, abort |-> g.abort]
  /\ Queried(g.abort)

CollectionGetattr ==
  /\ spc \in {"idle", "apply"}
  /\ \E c \in Colls : \E name \in AttrNames :
       CollectionGetattrReturned(c, name, collection_getattr(db, c, name))

\* a caller asks whether an object exists
CallExists ==
  /\ spc \in {"idle", "apply"}
  /\ \E cid \in Colls : \E oid \in CollObjs :
       /\ snap' = [call |-> "exists", cid |-> cid, oid |-> oid,
                   r |-> exists(db, cid, oid)]
       /\ Queried(FALSE)

NextQuery ==
  \/ BeginOp
  \/ QueryMkcoll
  \/ QueryRmcoll
  \/ QueryTouch
  \/ QueryRemove
  \/ CollSetattr
  \/ CollRmattr
  \/ SubmitOp
  \/ CollectionGetattr
  \/ CallExists

SpecQuery == InitStore /\ [][NextQuery]_vars

\* the committed collection c exists and has no attribute called name
AttrAbsent(c, name) ==
  /\ _check_coll(db, c) = 0
  /\ <<COLLECTION_ATTR, name>> \notin
       DOMAIN db[make_ghobject_for_coll(c)].keys

\* this step is a call of collection_getattr
CollectionGetattrCalled ==
  snap' # snap /\ snap'.call = "collection_getattr"

\* C38: collection_getattr(c, name, bl) on an existing collection that has
\* no attribute called name returns a negative error code and does not
\* fail an assertion
C38_GetattrAbsentReturnsError ==
  [][CollectionGetattrCalled /\ AttrAbsent(snap'.c, snap'.name) =>
       snap'.r < 0 /\ ~snap'.abort]_vars

\* collection_getattr returns the length of the value of an attribute that
\* the collection has, and the value
CollectionGetattrPresent ==
  [][CollectionGetattrCalled /\ _check_coll(db, snap'.c) = 0
       /\ ~AttrAbsent(snap'.c, snap'.name) =>
       /\ ~snap'.abort
       /\ snap'.bl =
            db[make_ghobject_for_coll(snap'.c)].keys[
              <<COLLECTION_ATTR, snap'.name>>]
       /\ snap'.r = Len(snap'.bl)]_vars

\* this step is a call of exists
ExistsCalled == snap' # snap /\ snap'.call = "exists"

\* C39: exists(cid, oid) returns true exactly when the collection cid
\* exists and a header of (cid, oid) exists; it returns false for every oid
\* of a collection that does not exist
C39_ExistsIffCollAndHeader ==
  [][ExistsCalled =>
       snap'.r = (/\ _check_coll(db, snap'.cid) = 0
                  /\ lookup_strip_header(db, snap'.oid).r = 0)]_vars

\* exists of an object of a collection that exists returns whether the
\* object has a header
ExistsInCollection ==
  [][ExistsCalled /\ _check_coll(db, snap'.cid) = 0 =>
       snap'.r = (lookup_strip_header(db, snap'.oid).r = 0)]_vars

====
